---- MODULE Spec2Model ----
(***************************************************************************)
(* Render-target screenshot capture of screenshotTools.ts as a state       *)
(* machine: the engine and scene fields the capture overrides, the         *)
(* closure of every capture request, and one action per handler            *)
(* (the call itself, the effect-created and compiled callbacks, the        *)
(* readiness wait's success and error callbacks, the end-of-frame          *)
(* observer and the promise continuations of the readback chain).          *)
(* CreateScreenshot with its canvas copy, GetScreenshotSize on its own and *)
(* the glTF loader extension registry have their own specifications.       *)
(***************************************************************************)
EXTENDS Integers, Sequences, FiniteSets, TLC

\* ------------------------------------------------------------------ bounds
\* Number of capture requests issued against the one engine/scene pair.
MaxRequests == 2

Requests == 1..MaxRequests

\* ------------------------------------------------------- JavaScript values
\* A JavaScript number-or-undefined value: a finite integer, an odd number of
\* halves, a non-finite number, or undefined (a property absent from the size
\* object).
Num(n) == [t |-> "num", v |-> n]
Half(n) == [t |-> "half", v |-> n]
Absent == [t |-> "undefined", v |-> 0]
Infinity == [t |-> "Infinity", v |-> 0]
NegInfinity == [t |-> "-Infinity", v |-> 0]
NaN == [t |-> "NaN", v |-> 0]

\* JavaScript truthiness: undefined, NaN and 0 are falsy.
Truthy(x) ==
    x.t \in {"Infinity", "-Infinity", "big", "half"} \/ (x.t = "num" /\ x.v # 0)

\* Math.abs.
Abs(x) == IF x.t \in {"num", "half"}
          THEN [x EXCEPT !.v = IF x.v < 0 THEN -x.v ELSE x.v]
          ELSE IF x.t = "-Infinity" THEN Infinity ELSE x

\* x * y for finite y (the precision); undefined converts to NaN.
Times(x, y) ==
    IF x.t = "num" /\ y.t = "num" THEN Num(x.v * y.v)
    ELSE IF x.t = "num" /\ y.t = "half"
    THEN (IF (x.v * y.v) % 2 = 0 THEN Num((x.v * y.v) \div 2)
          ELSE Half(x.v * y.v))
    ELSE IF x.t = "undefined" \/ y.t \notin {"num", "half"} THEN NaN
    ELSE IF y.v = 0 THEN NaN
    ELSE IF (x.t = "Infinity") = (y.v > 0) THEN Infinity ELSE NegInfinity

\* The quotient truncated instead of rounded.
RoundDivTruncating(x, a) ==
    IF x.t = "half"
    THEN (IF a[1] = 0 THEN (IF x.v > 0 THEN Infinity ELSE NegInfinity)
          ELSE Num((x.v * a[2]) \div (2 * a[1])))
    ELSE IF x.t # "num" THEN (IF x.t = "undefined" THEN NaN ELSE x)
    ELSE IF a[1] = 0
         THEN (IF x.v > 0 THEN Infinity ELSE IF x.v < 0 THEN NegInfinity ELSE NaN)
         ELSE Num((x.v * a[2]) \div a[1])

\* Math.round(x / a) for the aspect ratio a = <<numerator, denominator>>,
\* numerator >= 0 and denominator > 0. Math.round rounds halves up.
RoundDiv(x, a) ==
    IF x.t = "half"
    THEN (IF a[1] = 0 THEN (IF x.v > 0 THEN Infinity ELSE NegInfinity)
          ELSE Num((x.v * a[2] + a[1]) \div (2 * a[1])))
    ELSE IF x.t # "num" THEN (IF x.t = "undefined" THEN NaN ELSE x)
    ELSE IF a[1] = 0
         THEN (IF x.v > 0 THEN Infinity ELSE IF x.v < 0 THEN NegInfinity ELSE NaN)
         ELSE Num((2 * x.v * a[2] + a[1]) \div (2 * a[1]))

\* Math.round(x * a).
RoundMul(x, a) ==
    IF x.t = "half" THEN Num((x.v * a[1] + a[2]) \div (2 * a[2]))
    ELSE IF x.t # "num" THEN (IF x.t = "undefined" \/ a[1] = 0 THEN NaN ELSE x)
    ELSE Num((2 * x.v * a[1] + a[2]) \div (2 * a[2]))

\* Math.round: halves are rounded up.
Round(x) == IF x.t = "half" THEN Num((x.v + 1) \div 2) ELSE x

\* Math.floor.
Floor(x) == IF x.t = "half" THEN Num((x.v - 1) \div 2) ELSE x

\* The largest 32-bit signed integer, 2^31 - 1.
Int32Max == 2147483647

\* A finite integer at or above 2^31 and below 2^32, written 2^31 + k with
\* 0 <= k < 2^31. Only a numeric size takes such a value, so that it meets
\* the truthiness test, Math.floor and ToInt32 but no multiplication or
\* division.
Big(k) == [t |-> "big", v |-> k]

\* x | 0 (ToInt32): NaN and the infinities become 0, a finite integer is
\* taken modulo 2^32 into the signed 32-bit range, so 2^31 + k becomes
\* k - 2^31.
ToInt32(x) ==
    IF x.t = "num" THEN x.v
    ELSE IF x.t = "half"
    THEN (IF x.v > 0 THEN x.v \div 2 ELSE -((-x.v) \div 2))
    ELSE IF x.t = "big" THEN (x.v - Int32Max) - 1
    ELSE 0

\* ------------------------------------------------------------ input domains
Cameras == {"camA", "camB"}

\* What the engine reports when a capture is requested: the width of the
\* physical canvas, the aspect ratio engine.getAspectRatio(camera) returns as
\* <<numerator, denominator>>, and whether onResizeObservable has observers.
Environment(cw, a, ro) == [canvasWidth |-> cw, aspectRatio |-> a, hasResizeObservers |-> ro]
Environments ==
    { Environment(4, <<2, 1>>, TRUE), Environment(0, <<2, 1>>, TRUE),
      Environment(4, <<0, 1>>, FALSE) }

\* The size argument: a number, or an IScreenshotSize object whose absent
\* properties are undefined.
NumberSize(n) ==
    [kind |-> "number", n |-> Num(n), width |-> Absent, height |-> Absent,
     finalWidth |-> Absent, finalHeight |-> Absent, precision |-> Absent]
ObjectSize(w, h, fw, fh, p) ==
    [kind |-> "object", n |-> Absent, width |-> w, height |-> h,
     finalWidth |-> fw, finalHeight |-> fh, precision |-> p]

\* The arguments of the capture requests: a numeric size read back directly,
\* a size object with a different final size and antialiasing, the size
\* object {width: 0}, and the numeric size 0.
CaptureArgs ==
    { [camera |-> "camB", size |-> NumberSize(2),
       antialiasing |-> FALSE, renderSprites |-> FALSE],
      [camera |-> "camB", size |-> ObjectSize(Num(2), Num(1), Num(4), Num(2), Absent),
       antialiasing |-> TRUE, renderSprites |-> FALSE],
      [camera |-> "camA", size |-> ObjectSize(Num(0), Absent, Absent, Absent, Absent),
       antialiasing |-> FALSE, renderSprites |-> TRUE],
      [camera |-> "camB", size |-> NumberSize(0),
       antialiasing |-> TRUE, renderSprites |-> FALSE] }

\* ------------------------------------------------------------------- state
VARIABLES
    engine,    \* skipFrameRender, getRenderWidth/Height, observers, canvas
    scene,     \* activeCamera, activeCameras, spritesEnabled, meshes, renderId
    camera,    \* camera -> outputRenderTarget
    req,       \* request -> the closure of CreateScreenshotUsingRenderTarget
    hist,      \* request -> what each handler of the request did and saw
    screenshotCanvas,  \* the module-level canvas of CreateScreenshot
    sizing,    \* one call of GetScreenshotSize: its arguments and its result
    registry,  \* RegisteredGLTFExtensions: the entries in insertion order
    registryHist,  \* the last registry call and what it returned
    audio,     \* the AudioEngine: its fields, its context, its pending promises
    reading    \* the last read of the render size by code running in a capture

vars == <<engine, scene, camera, req, hist, screenshotCanvas, sizing,
          registry, registryHist, audio, reading>>

\* The state of the other modules, which no handler of a capture touches.
otherModules == <<sizing, registry, registryHist, audio, reading>>

\* The engine, the scene and the captures, which the other modules leave alone.
captureState == <<engine, scene, camera, req, hist, screenshotCanvas>>

\* What the handlers of a render-target capture leave alone.
elsewhere == <<screenshotCanvas, otherModules>>

\* A render target: none (null), or the "screenShot" texture of a request.
NoTarget == <<"null", 0>>
ScreenShot(r) == <<"screenShot", r>>

\* Array objects: the scene's own mesh array, and the copy a request makes.
SceneMeshes == <<"scene.meshes", 0>>
RenderList(r) == <<"renderList", r>>

\* The accessor functions installed before any capture.
OriginalAccessor == 0

\* The closure a capture installs as engine.getRenderWidth / getRenderHeight.
Override(r) == r

\* The engine's own accessors, called outside any render target: the size of
\* the physical canvas.
OriginalGetRenderWidth(e) == e.canvasWidth
OriginalGetRenderHeight(e) == e.canvasHeight

\* engine._currentRenderTarget: null, or a render target of its own size that
\* is bound while the capture is in preparation.
NoRenderTarget == [bound |-> FALSE, width |-> 0, height |-> 0]
NestedRenderTarget == [bound |-> TRUE, width |-> 1, height |-> 7]

\* An override that reports the size of the capture whatever is bound.
OverrideGetRenderWidthIgnoringTarget(closure, e, useScreen) == closure.width

\* The override a capture installs as engine.getRenderWidth, closure being
\* the closure of that capture: the width of the current render target
\* unless useScreen is set or none is bound, the width of the capture
\* otherwise.
OverrideGetRenderWidth(closure, e, useScreen) ==
    IF ~useScreen /\ e.currentRenderTarget.bound
    THEN e.currentRenderTarget.width
    ELSE closure.width

\* The override a capture installs as engine.getRenderHeight.
OverrideGetRenderHeight(closure, e, useScreen) ==
    IF ~useScreen /\ e.currentRenderTarget.bound
    THEN e.currentRenderTarget.height
    ELSE closure.height

\* engine.getRenderWidth(useScreen) as currently installed: the engine's own
\* accessor, or the override of a capture.
RenderWidth(e, rq, useScreen) ==
    IF e.getRenderWidth = OriginalAccessor
    THEN OriginalGetRenderWidth(e)
    ELSE OverrideGetRenderWidth(rq[e.getRenderWidth], e, useScreen)

\* engine.getRenderHeight(useScreen) as currently installed.
RenderHeight(e, rq, useScreen) ==
    IF e.getRenderHeight = OriginalAccessor
    THEN OriginalGetRenderHeight(e)
    ELSE OverrideGetRenderHeight(rq[e.getRenderHeight], e, useScreen)

\* engine.getRenderWidth() and engine.getRenderHeight(): useScreen defaults
\* to false.
GetRenderWidth(e, rq) == RenderWidth(e, rq, FALSE)
GetRenderHeight(e, rq) == RenderHeight(e, rq, FALSE)

\* ------------------------------------------------------- GetScreenshotSize
\* The precision taken with its sign.
PrecisionSigned(size) ==
    IF Truthy(size.precision) THEN size.precision ELSE Num(1)

\* The precision multiplier of a size object.
Precision(size) ==
    IF Truthy(size.precision) THEN Abs(size.precision) ELSE Num(1)

\* A size object without a usable width or height resolving to 0 by 0 instead
\* of the engine's render size.
RawObjectSizeNoDefault(size, renderWidth, aspect) ==
    LET precision == Precision(size) IN
    IF Truthy(size.width) /\ Truthy(size.height)
    THEN [width |-> Times(size.width, precision),
          height |-> Times(size.height, precision)]
    ELSE IF Truthy(size.width) /\ ~Truthy(size.height)
    THEN LET w == Times(size.width, precision)
         IN [width |-> w, height |-> RoundDiv(w, aspect)]
    ELSE IF Truthy(size.height) /\ ~Truthy(size.width)
    THEN LET h == Times(size.height, precision)
         IN [width |-> RoundMul(h, aspect), height |-> h]
    ELSE [width |-> Num(0), height |-> Num(0)]

\* width and height before truncation, for a size object.
RawObjectSize(size, renderWidth, aspect) ==
    LET precision == Precision(size) IN
    IF Truthy(size.width) /\ Truthy(size.height)
    THEN [width |-> Times(size.width, precision),
          height |-> Times(size.height, precision)]
    ELSE IF Truthy(size.width) /\ ~Truthy(size.height)
    THEN LET w == Times(size.width, precision)
         IN [width |-> w, height |-> RoundDiv(w, aspect)]
    ELSE IF Truthy(size.height) /\ ~Truthy(size.width)
    THEN LET h == Times(size.height, precision)
         IN [width |-> RoundMul(h, aspect), height |-> h]
    ELSE LET w == Round(Times(Num(renderWidth), precision))
         IN [width |-> w, height |-> RoundDiv(w, aspect)]

\* finalWidth and finalHeight before truncation, for a size object.
FinalObjectSize(size, raw, aspect) ==
    IF Truthy(size.finalWidth) /\ Truthy(size.finalHeight)
    THEN [finalWidth |-> size.finalWidth, finalHeight |-> size.finalHeight]
    ELSE IF Truthy(size.finalWidth) /\ ~Truthy(size.finalHeight)
    THEN [finalWidth |-> size.finalWidth,
          finalHeight |-> RoundDiv(size.finalWidth, aspect)]
    ELSE IF Truthy(size.finalHeight) /\ ~Truthy(size.finalWidth)
    THEN [finalWidth |-> RoundMul(size.finalHeight, aspect),
          finalHeight |-> size.finalHeight]
    ELSE [finalWidth |-> raw.width, finalHeight |-> raw.height]

\* if (x) { x = Math.floor(x) } followed by x | 0.
Truncate(x) == ToInt32(IF Truthy(x) THEN Floor(x) ELSE x)

\* A numeric size taken as a width, the height following the aspect ratio.
GetScreenshotSizeNumberAsWidth(size, renderWidth, aspect) ==
    LET raw == IF size.kind = "object"
               THEN RawObjectSize(size, renderWidth, aspect)
               ELSE [width |-> size.n, height |-> RoundDiv(size.n, aspect)]
        final == IF size.kind = "object"
                 THEN FinalObjectSize(size, raw, aspect)
                 ELSE [finalWidth |-> raw.width, finalHeight |-> raw.height]
    IN [height |-> Truncate(raw.height), width |-> Truncate(raw.width),
        finalWidth |-> Truncate(final.finalWidth),
        finalHeight |-> Truncate(final.finalHeight)]

\* GetScreenshotSize(engine, camera, size): renderWidth is what
\* engine.getRenderWidth() returns, aspect what engine.getAspectRatio(camera)
\* returns, at the time of the call.
GetScreenshotSize(size, renderWidth, aspect) ==
    LET raw == IF size.kind = "object"
               THEN RawObjectSize(size, renderWidth, aspect)
               ELSE IF size.n.t # "NaN"
               THEN [width |-> size.n, height |-> size.n]
               ELSE [width |-> Num(0), height |-> Num(0)]
        final == IF size.kind = "object"
                 THEN FinalObjectSize(size, raw, aspect)
                 ELSE IF size.n.t # "NaN"
                 THEN [finalWidth |-> size.n, finalHeight |-> size.n]
                 ELSE [finalWidth |-> Num(0), finalHeight |-> Num(0)]
    IN [height |-> Truncate(raw.height), width |-> Truncate(raw.width),
        finalWidth |-> Truncate(final.finalWidth),
        finalHeight |-> Truncate(final.finalHeight)]

\* A size check that looks at the width alone.
InvalidSizeWidthOnly(sz) == ~(sz.width # 0)

\* if (!(height && width)) { Logger.Error(...); return; }
InvalidSize(sz) == ~(sz.height # 0 /\ sz.width # 0)

\* --------------------------------------------------------------- snapshots
\* The engine fields a capture overrides.
EngineOverrideState(e) ==
    [skipFrameRender |-> e.skipFrameRender,
     getRenderWidth |-> e.getRenderWidth,
     getRenderHeight |-> e.getRenderHeight]

\* The scene fields a capture swaps, with the camera's output target.
SceneSetup(s, cam, c) ==
    [activeCamera |-> s.activeCamera, activeCameras |-> s.activeCameras,
     outputRenderTarget |-> cam[c], spritesEnabled |-> s.spritesEnabled,
     meshes |-> s.meshes]

NoEngineState == [skipFrameRender |-> FALSE, getRenderWidth |-> OriginalAccessor,
                  getRenderHeight |-> OriginalAccessor]
NoSceneSetup == [activeCamera |-> "null", activeCameras |-> "null",
                 outputRenderTarget |-> NoTarget, spritesEnabled |-> FALSE,
                 meshes |-> SceneMeshes]

\* The scene fields and the meshes a caller finds when it requests a capture.
SceneAtCall(s) ==
    [activeCamera |-> s.activeCamera, activeCameras |-> s.activeCameras,
     spritesEnabled |-> s.spritesEnabled, meshes |-> s.meshes,
     meshContents |-> s.meshContents]

NoSceneAtCall ==
    [activeCamera |-> "null", activeCameras |-> "null",
     spritesEnabled |-> FALSE, meshes |-> SceneMeshes, meshContents |-> {}]

\* ------------------------------------------------------------------- Init
NoTexture == [name |-> NoTarget, state |-> "none", width |-> 0, height |-> 0,
              renderList |-> SceneMeshes, renderListContents |-> {},
              internalDisposed |-> FALSE]

\* What a render pass draws into the surface: nothing yet.
NoPixels ==
    [camera |-> "null", meshes |-> {}, sprites |-> FALSE,
     width |-> 0, height |-> 0, renderWidth |-> 0, renderHeight |-> 0,
     complete |-> FALSE]

IdleRequest ==
    [pc |-> "idle", camera |-> "camA", size |-> NumberSize(0),
     antialiasing |-> FALSE, renderSprites |-> FALSE,
     width |-> 0, height |-> 0, finalWidth |-> 0, finalHeight |-> 0,
     originalGetRenderWidth |-> OriginalAccessor,
     originalGetRenderHeight |-> OriginalAccessor,
     texture |-> NoTexture, promise |-> "none",
     entry |-> "none", forceDownload |-> FALSE]

NoHistory ==
    [renderToTexture |-> 0, renderCount |-> 0, renderOutcome |-> "none",
     restored |-> FALSE, restoredBeforeCallback |-> FALSE,
     encoderCalls |-> 0, encoderWidth |-> 0, encoderHeight |-> 0,
     resizePass |-> FALSE, successCalls |-> 0, overlapped |-> FALSE,
     renderWidthAtCall |-> 0, aspectAtCall |-> <<0, 1>>,
     resolved |-> [height |-> 0, width |-> 0, finalWidth |-> 0, finalHeight |-> 0],
     preCall |-> NoEngineState, preSwap |-> NoSceneSetup,
     atRender |-> NoSceneSetup, engineAtRender |-> NoEngineState,
     postRender |-> NoSceneSetup, engineAfter |-> NoEngineState,
     resizeSeen |-> <<>>, pixels |-> NoPixels,
     path |-> "none", sceneAtCall |-> NoSceneAtCall, canvasCopies |-> 0,
     sharedFrame |-> FALSE,
     renderIdsBeforeRender |-> 0, materialResetBeforeRender |-> FALSE,
     callbackData |-> "none",
     encoderData |-> "none"]

\* The module-level screenshotCanvas: null until the first canvas copy.
NoCanvas == [created |-> FALSE, width |-> 0, height |-> 0, elements |-> 0]

\* No call of GetScreenshotSize is followed on its own.
NoSizing == [pc |-> "off"]

\* The calls of the extension registry are not followed.
RegistryAside == [op |-> "off"]

\* The reads of the render size are not followed.
NoReading == [pc |-> "off"]

\* No AudioEngine is followed.
AudioAside == [op |-> "off"]

\* The names, factories and flags extensions are registered with.
ExtensionNames == {"KHR_a", "EXT_b", "MSFT_c"}
Factories == {"factory1", "factory2"}

\* What has been registered last under a name and not unregistered since:
\* nothing.
NotRegistered == [registered |-> FALSE, isGLTFExtension |-> FALSE, factory |-> ""]

\* No call of the extension registry has been made.
NoRegistryCall ==
    [op |-> "none", name |-> "", returned |-> FALSE, warned |-> FALSE,
     before |-> <<>>, latest |-> [n \in ExtensionNames |-> NotRegistered]]

\* The engine, scene, cameras and requests before any capture, the engine
\* reporting one of the environments envs and created with one of the
\* antialias options.
InitCapture(envs, options) ==
    /\ \E env \in envs, antialias \in options :
         engine = [skipFrameRender |-> FALSE,
                   getRenderWidth |-> OriginalAccessor,
                   getRenderHeight |-> OriginalAccessor,
                   canvasWidth |-> env.canvasWidth, canvasHeight |-> 2,
                   aspectRatio |-> env.aspectRatio,
                   hasResizeObservers |-> env.hasResizeObservers,
                   antialias |-> antialias,
                   currentRenderTarget |-> NoRenderTarget,
                   onEndFrame |-> {}]
    /\ scene = [activeCamera |-> "camA", activeCameras |-> "null",
                spritesEnabled |-> TRUE, meshes |-> SceneMeshes,
                meshContents |-> {"mesh1", "mesh2"}, renderId |-> 0,
                cachedMaterialResetAt |-> 0]
    /\ camera = [c \in Cameras |-> NoTarget]
    /\ req = [r \in Requests |-> IdleRequest]
    /\ hist = [r \in Requests |-> NoHistory]
    /\ screenshotCanvas = NoCanvas

\* The engine no capture is running on.
QuietCapture == InitCapture({Environment(4, <<2, 1>>, FALSE)}, {TRUE})

\* The other modules at rest.
ModulesAside ==
    /\ sizing = NoSizing
    /\ registry = <<>>
    /\ registryHist = RegistryAside
    /\ audio = AudioAside
    /\ reading = NoReading

Init ==
    /\ InitCapture(Environments, {TRUE})
    /\ ModulesAside

\* ------------------------------------------- CreateScreenshotUsingRenderTarget
\* A capture whose override is installed and not yet restored.
OverrideActive(rq, q) == rq[q].pc \in {"awaitEffect", "awaitCompile", "polling"}

\* The accessors replaced without skipFrameRender being set.
OverrideEngineWithoutSkip(e, r) ==
    [e EXCEPT !.getRenderWidth = Override(r),
              !.getRenderHeight = Override(r)]

\* skipFrameRender flipped instead of set.
OverrideEngineTogglesSkip(e, r) ==
    [e EXCEPT !.skipFrameRender = ~@,
              !.getRenderWidth = Override(r),
              !.getRenderHeight = Override(r)]

\* engine.skipFrameRender = true, and the two accessors replaced by the
\* closures of request r.
OverrideEngine(e, r) ==
    [e EXCEPT !.skipFrameRender = TRUE,
              !.getRenderWidth = Override(r),
              !.getRenderHeight = Override(r)]

\* notifyObservers(engine) without the hasObservers() test.
NotifyResizeUnconditional(seen, e, rq) ==
    Append(seen, <<GetRenderWidth(e, rq), GetRenderHeight(e, rq)>>)

\* if (engine.onResizeObservable.hasObservers()) notifyObservers(engine):
\* the sequence of render widths the resize observers have read.
NotifyResize(seen, e, rq) ==
    IF e.hasResizeObservers
    THEN Append(seen, <<GetRenderWidth(e, rq), GetRenderHeight(e, rq)>>)
    ELSE seen

\* The meshes in an array object: the scene's own array, or the copy a
\* request made of it at its call.
Contents(array, s, rq) ==
    IF array[1] = "scene.meshes" THEN s.meshContents
    ELSE rq[array[2]].texture.renderListContents

\* The surface given the scene's own array instead of a copy of it.
NewTextureSharesMeshes(r, sz, meshes) ==
    [name |-> ScreenShot(r), state |-> "alive",
     width |-> sz.width, height |-> sz.height,
     renderList |-> SceneMeshes, renderListContents |-> meshes,
     internalDisposed |-> FALSE]

\* new RenderTargetTexture("screenShot", {width, height}, ...) with
\* renderList = scene.meshes.slice().
NewTexture(r, sz, meshes) ==
    [name |-> ScreenShot(r), state |-> "alive",
     width |-> sz.width, height |-> sz.height,
     renderList |-> RenderList(r), renderListContents |-> meshes,
     internalDisposed |-> FALSE]

\* scene.incrementRenderId().
IncrementRenderId(s) == [s EXCEPT !.renderId = @ + 1]

\* The cached material left as it is.
ResetCachedMaterialDropped(s) == s

\* scene.resetCachedMaterial(): the cached material is dropped, in the render
\* generation the scene is in.
ResetCachedMaterial(s) == [s EXCEPT !.cachedMaterialResetAt = s.renderId]

\* renderToTexture(): scene.incrementRenderId(); scene.resetCachedMaterial();
\* renderWhenReady() starts the readiness wait.
RenderToTexture(s) == ResetCachedMaterial(IncrementRenderId(s))

\* The body of CreateScreenshotUsingRenderTarget up to its return, for the
\* request r: closure is what the caller has put into the request (how the
\* callback is wrapped), seen what it has recorded of the call.
RenderTargetCapture(r, closure, seen0, cam, size, antialiasing, renderSprites) ==
    /\ req[r].pc = "idle"
    \* requests are numbered in the order of their calls
    /\ \A q \in Requests : q < r => req[q].pc # "idle"
    /\ LET renderWidth == GetRenderWidth(engine, req)
           sz == GetScreenshotSize(size, renderWidth, engine.aspectRatio)
           args == [closure EXCEPT !.camera = cam, !.size = size,
                                   !.antialiasing = antialiasing,
                                   !.renderSprites = renderSprites]
           seen == [seen0 EXCEPT !.renderWidthAtCall = renderWidth,
                                   !.aspectAtCall = engine.aspectRatio,
                                   !.resolved = sz,
                                   !.sceneAtCall = SceneAtCall(scene),
                                   !.preCall = EngineOverrideState(engine)]
       IN IF InvalidSize(sz)
          THEN /\ req' = [req EXCEPT ![r] = [args EXCEPT !.pc = "invalid"]]
               /\ hist' = [hist EXCEPT ![r] = seen]
               /\ UNCHANGED <<engine, scene, camera>>
          ELSE LET e1 == OverrideEngine(engine, r)
                   others == {q \in Requests \ {r} : OverrideActive(req, q)}
                   rq1 == [req EXCEPT ![r] =
                             [args EXCEPT
                                !.width = sz.width, !.height = sz.height,
                                !.finalWidth = sz.finalWidth,
                                !.finalHeight = sz.finalHeight,
                                !.originalGetRenderWidth = engine.getRenderWidth,
                                !.originalGetRenderHeight = engine.getRenderHeight,
                                !.texture = NewTexture(r, sz,
                                              Contents(scene.meshes, scene, req)),
                                !.pc = IF antialiasing THEN "awaitEffect"
                                                       ELSE "polling"]]
               IN /\ engine' = e1
                  /\ req' = rq1
                  /\ scene' = IF antialiasing THEN scene ELSE RenderToTexture(scene)
                  /\ hist' = [q \in Requests |->
                                IF q = r
                                THEN [seen EXCEPT
                                        !.overlapped = others # {},
                                        !.resizeSeen = NotifyResize(@, e1, rq1),
                                        !.renderToTexture =
                                            IF antialiasing THEN 0 ELSE 1]
                                ELSE IF q \in others
                                THEN [hist[q] EXCEPT !.overlapped = TRUE]
                                ELSE hist[q]]
                  /\ UNCHANGED camera
    /\ UNCHANGED elsewhere

\* The promise executor of CreateScreenshotUsingRenderTargetAsync calling
\* CreateScreenshotUsingRenderTarget(engine, camera, size, callback, ...).
CreateScreenshotUsingRenderTarget(r, cam, size, antialiasing, renderSprites) ==
    RenderTargetCapture(r,
        [req[r] EXCEPT !.promise = "pending",
                       !.entry = "CreateScreenshotUsingRenderTargetAsync"],
        hist[r], cam, size, antialiasing, renderSprites)

\* The else dropped: renderToTexture() is called when the effect is created
\* even though it is not ready, and e.onCompiled will call it again.
EffectCreatedRendersAtOnce(r, ready) ==
    /\ req[r].pc = "awaitEffect"
    /\ req' = [req EXCEPT ![r].pc = IF ready THEN "polling" ELSE "awaitCompile"]
    /\ scene' = RenderToTexture(scene)
    /\ hist' = [hist EXCEPT ![r].renderToTexture = @ + 1]
    /\ UNCHANGED <<engine, camera>>
    /\ UNCHANGED elsewhere

\* fxaaPostProcess.onEffectCreatedObservable fires: a ready effect renders at
\* once, otherwise e.onCompiled is set and the capture waits for it.
EffectCreated(r, ready) ==
    /\ req[r].pc = "awaitEffect"
    /\ IF ready
       THEN /\ req' = [req EXCEPT ![r].pc = "polling"]
            /\ scene' = RenderToTexture(scene)
            /\ hist' = [hist EXCEPT ![r].renderToTexture = @ + 1]
       ELSE /\ req' = [req EXCEPT ![r].pc = "awaitCompile"]
            /\ UNCHANGED <<scene, hist>>
    /\ UNCHANGED <<engine, camera>>
    /\ UNCHANGED elsewhere

\* The effect of the antialiasing post-process is still compiling: it calls
\* the onCompiled callback it was given once, when the compilation finishes.
EffectCompiling(rq) == rq.pc = "awaitCompile"

\* e.onCompiled(): renderToTexture().
EffectCompiled(r) ==
    /\ EffectCompiling(req[r])
    /\ req' = [req EXCEPT ![r].pc = "polling"]
    /\ scene' = RenderToTexture(scene)
    /\ hist' = [hist EXCEPT ![r].renderToTexture = @ + 1]
    /\ UNCHANGED <<engine, camera>>
    /\ UNCHANGED elsewhere

\* ------------------------------------------------------------ renderWhenReady
\* "Swap with the requested one": the scene setup scene.render() runs under.
\* texture.renderList is the copy made at the call, so it is never null and
\* scene.meshes becomes that copy.
SwapSceneSetup(original, rq) ==
    [activeCamera |-> rq.camera, activeCameras |-> "null",
     outputRenderTarget |-> rq.texture.name,
     spritesEnabled |-> rq.renderSprites,
     meshes |-> rq.texture.renderList]

\* A finally block that forgets to put scene.meshes back.
RestoreSceneSetupKeepsRenderList(original, swapped) ==
    [original EXCEPT !.meshes = swapped.meshes]

\* A finally block that forgets to put scene.activeCameras back.
RestoreSceneSetupKeepsCameras(original, swapped) ==
    [original EXCEPT !.activeCameras = swapped.activeCameras]

\* The finally block's scene part: the setup put back after scene.render().
RestoreSceneSetup(original, swapped) == original

\* The accessors of the capture left installed.
RestoreAccessorsNever(e, rq) == e

\* Only getRenderWidth put back.
RestoreAccessorsWidthOnly(e, rq) ==
    [e EXCEPT !.getRenderWidth = rq.originalGetRenderWidth]

\* Only getRenderHeight put back.
RestoreAccessorsHeightOnly(e, rq) ==
    [e EXCEPT !.getRenderHeight = rq.originalGetRenderHeight]

\* The finally block's engine part: the accessors saved at the call are put
\* back (the resize notification comes between) and skipFrameRender cleared.
RestoreAccessors(e, rq) ==
    [e EXCEPT !.getRenderWidth = rq.originalGetRenderWidth,
              !.getRenderHeight = rq.originalGetRenderHeight]

\* skipFrameRender left set: the flag is cleared after the try statement
\* instead of inside finally, so a throwing render skips it.
RestoreSkipFrameRenderForgotten(e) == e

RestoreSkipFrameRender(e) == [e EXCEPT !.skipFrameRender = FALSE]

\* The end-of-frame observer never registered.
AddOnceEndFrameDropped(e, r) == e

\* engine.onEndFrameObservable.addOnce(...) of request r.
AddOnceEndFrame(e, r) == [e EXCEPT !.onEndFrame = @ \cup {r}]

\* scene and camera with a scene setup written into them.
WithSetup(s, setup) ==
    [s EXCEPT !.activeCamera = setup.activeCamera,
              !.activeCameras = setup.activeCameras,
              !.spritesEnabled = setup.spritesEnabled,
              !.meshes = setup.meshes]

\* What scene.render() draws: the meshes of scene.meshes seen from the active
\* camera into its output target, with or without sprites, at the render
\* size the engine reports; a throwing render leaves the picture incomplete.
Rendered(setup, s, e, rq, renderThrows) ==
    LET target == rq[setup.outputRenderTarget[2]].texture IN
    [camera |-> setup.activeCamera,
     meshes |-> Contents(setup.meshes, s, rq),
     sprites |-> setup.spritesEnabled,
     width |-> target.width, height |-> target.height,
     renderWidth |-> GetRenderWidth(e, rq),
     renderHeight |-> GetRenderHeight(e, rq),
     complete |-> ~renderThrows]

\* scene.render() called again after the try block as well.
SceneRenderTwice(h, renderThrows) ==
    [h EXCEPT !.renderCount = @ + 2,
              !.renderOutcome = IF renderThrows THEN "threw" ELSE "ok"]

\* scene.render() inside the try block: it is called once, and returns or
\* throws.
SceneRender(h, renderThrows) ==
    [h EXCEPT !.renderCount = @ + 1,
              !.renderOutcome = IF renderThrows THEN "threw" ELSE "ok"]

\* _RetryWithInterval(condition, onSuccess, onError) is waiting: it polls the
\* condition until it holds and then calls onSuccess once, or gives up and
\* calls onError once.
RetryWaiting(rq) == rq.pc = "polling"

\* The success callback of _RetryWithInterval: the surface and the camera are
\* ready. It registers the end-of-frame observer, swaps the scene setup, calls
\* scene.render() once (which returns or throws) and restores in finally.
RetrySuccess(r, renderThrows) ==
    /\ RetryWaiting(req[r])
    /\ LET rq == req[r]
           e1 == AddOnceEndFrame(engine, r)
           s1 == RenderToTexture(scene)
           original == SceneSetup(s1, camera, rq.camera)
           swapped == SwapSceneSetup(original, rq)
           restored == RestoreSceneSetup(original, swapped)
           e2 == RestoreAccessors(e1, rq)
           e3 == RestoreSkipFrameRender(e2)
       IN /\ engine' = e3
          /\ scene' = WithSetup(s1, restored)
          /\ camera' = [camera EXCEPT ![rq.camera] = restored.outputRenderTarget]
          /\ req' = [req EXCEPT ![r].pc = "awaitEndFrame"]
          /\ hist' = [hist EXCEPT ![r] =
                [SceneRender(@, renderThrows) EXCEPT
                    !.preSwap = original,
                    !.atRender = swapped,
                    !.pixels = Rendered(swapped, s1, e1, req, renderThrows),
                    !.engineAtRender = EngineOverrideState(e1),
                    !.renderIdsBeforeRender = s1.renderId - scene.renderId,
                    !.materialResetBeforeRender =
                        s1.cachedMaterialResetAt = s1.renderId,
                    !.postRender = SceneSetup(scene', camera', rq.camera),
                    !.engineAfter = EngineOverrideState(engine'),
                    !.restored = TRUE,
                    !.resizeSeen = NotifyResize(@, e2, req)]]
    /\ UNCHANGED elsewhere

\* The error callback of _RetryWithInterval: "Restore engine frame rendering
\* on error".
RetryError(r) ==
    /\ RetryWaiting(req[r])
    /\ engine' = RestoreAccessors(RestoreSkipFrameRender(engine), req[r])
    /\ req' = [req EXCEPT ![r].pc = "readyError"]
    /\ hist' = [hist EXCEPT ![r].engineAfter = EngineOverrideState(engine')]
    /\ UNCHANGED <<scene, camera>>
    /\ UNCHANGED elsewhere

\* ------------------------------------------------------ end of frame, readback
\* The end-of-frame observer without its resize branch.
AfterEndFrameAlwaysDirect(rq) == "readPixels"

\* What the end-of-frame observer of a request starts: texture.readPixels()
\* when the final size is the raw size, the import of the pass shader otherwise.
AfterEndFrame(rq) ==
    IF rq.finalWidth = rq.width /\ rq.finalHeight = rq.height
    THEN "readPixels" ELSE "import"

\* The end-of-frame observers CreateScreenshot registered for its canvas copy.
CanvasObservers(e, rq) == {r \in e.onEndFrame : rq[r].pc = "awaitCanvasFrame"}

\* A canvas observer that sizes the canvas only when it creates it.
SizeCanvasOnCreation(canvas, rq1) ==
    IF canvas.created THEN canvas
    ELSE [created |-> TRUE, width |-> rq1.width, height |-> rq1.height,
          elements |-> canvas.elements + 1]

\* if (!screenshotCanvas) { screenshotCanvas = document.createElement("canvas") }
\* screenshotCanvas.width = width; screenshotCanvas.height = height: the
\* module-level canvas as the observer of one request leaves it, elements
\* counting the canvas elements created.
SizeCanvas(canvas, rq1) ==
    [created |-> TRUE, width |-> rq1.width, height |-> rq1.height,
     elements |-> IF canvas.created THEN canvas.elements ELSE canvas.elements + 1]

\* The module-level canvas after the canvas observers have run, in the order
\* of their registration (requests are numbered in the order of their
\* calls): created by the first and sized by each in turn.
RECURSIVE CopyToCanvas(_, _, _)
CopyToCanvas(canvas, observers, rq) ==
    IF observers = {} THEN canvas
    ELSE LET first == CHOOSE r \in observers : \A q \in observers : r <= q
         IN CopyToCanvas(SizeCanvas(canvas, rq[first]), observers \ {first}, rq)

\* The module-level canvas when the observer of request r hands it to the
\* encoder: the observers registered before it have run, and its own.
CanvasHandedOver(canvas, observers, r, rq) ==
    CopyToCanvas(canvas, {q \in observers : q <= r}, rq)

\* Where the canvas observer of a request ends: without a 2d context or a
\* rendering canvas it logs an error and returns; otherwise it draws and hands
\* the canvas to Tools.EncodeScreenshotCanvasData, with successCallback unless
\* forceDownload, in which case it calls successCallback("") itself.
AfterCanvasCopy(rq, available) ==
    IF ~available THEN "canvasFailed"
    ELSE IF rq.forceDownload THEN "done" ELSE "encoding"

\* What the canvas observer of a request did: the canvas, at the width and
\* height it has at that moment, was handed to the encoder.
CanvasEncoded(h, rq, canvas, available) ==
    IF ~available THEN h
    ELSE [h EXCEPT !.encoderCalls = @ + 1,
                   !.encoderWidth = canvas.width, !.encoderHeight = canvas.height,
                   !.successCalls = IF rq.forceDownload THEN @ + 1 ELSE @,
                   !.callbackData = IF rq.forceDownload THEN "empty" ELSE @]

\* engine.onEndFrameObservable notifies; every addOnce observer runs and is
\* removed: the observers of the render-target captures start their readback,
\* those of CreateScreenshot copy the rendering canvas, which is available
\* (with a 2d context) or not.
EndOfFrame(available) ==
    /\ engine.onEndFrame # {}
    /\ LET copying == CanvasObservers(engine, req) IN
       /\ req' = [r \in Requests |->
                    IF r \in copying
                    THEN [req[r] EXCEPT !.pc = AfterCanvasCopy(req[r], available)]
                    ELSE IF r \in engine.onEndFrame
                    THEN [req[r] EXCEPT !.pc = AfterEndFrame(req[r])]
                    ELSE req[r]]
       /\ hist' = [r \in Requests |->
                     IF r \in copying
                     THEN [CanvasEncoded(hist[r], req[r],
                                         CanvasHandedOver(screenshotCanvas,
                                                          copying, r, req),
                                         available)
                             EXCEPT !.sharedFrame = copying # {r}]
                     ELSE hist[r]]
       /\ screenshotCanvas' = CopyToCanvas(screenshotCanvas, copying, req)
    /\ engine' = [engine EXCEPT !.onEndFrame = {}]
    /\ UNCHANGED <<scene, camera>>
    /\ UNCHANGED otherModules

\* The end of a frame whose rendering canvas is available.
EndFrame == EndOfFrame(TRUE)

\* dumpDataFunc(w, h, data, successCallback, ...) is called, data being the
\* pixels read from the surface or from its resized copy.
DumpData(h, w, ht, resized) ==
    [h EXCEPT !.encoderCalls = @ + 1, !.encoderWidth = w, !.encoderHeight = ht,
              !.resizePass = resized,
              !.encoderData = IF resized THEN "resized" ELSE "read"]

\* texture.dispose() in the readPixels continuation: the RenderTargetTexture.
DisposeTexture(t) == [t EXCEPT !.state = "disposed", !.internalDisposed = TRUE]

\* texture.dispose() in the _readTexturePixels continuation, where texture is
\* the InternalTexture ApplyPostProcess resolved with.
DisposeInternalTexture(t) == [t EXCEPT !.internalDisposed = TRUE]

\* texture.readPixels(...) settles: its then-callback encodes and disposes; a
\* rejection has no handler.
ReadPixelsSettled(r, ok) ==
    /\ req[r].pc = "readPixels"
    /\ IF ok
       THEN /\ req' = [req EXCEPT ![r].pc = "encoding",
                                  ![r].texture = DisposeTexture(@)]
            /\ hist' = [hist EXCEPT ![r] =
                          DumpData(@, req[r].width, req[r].height, FALSE)]
       ELSE /\ req' = [req EXCEPT ![r].pc = "readbackFailed"]
            /\ UNCHANGED hist
    /\ UNCHANGED <<engine, scene, camera>>
    /\ UNCHANGED elsewhere

\* The import of the pass fragment shader resolves: ApplyPostProcess starts.
ImportResolved(r) ==
    /\ req[r].pc = "import"
    /\ req' = [req EXCEPT ![r].pc = "applyPostProcess"]
    /\ UNCHANGED <<engine, scene, camera, hist>>
    /\ UNCHANGED elsewhere

\* ApplyPostProcess("pass", ...) settles: engine._readTexturePixels starts on
\* its result; a rejection has no handler.
ApplyPostProcessSettled(r, ok) ==
    /\ req[r].pc = "applyPostProcess"
    /\ req' = [req EXCEPT ![r].pc = IF ok THEN "readTexturePixels"
                                          ELSE "readbackFailed"]
    /\ UNCHANGED <<engine, scene, camera, hist>>
    /\ UNCHANGED elsewhere

\* engine._readTexturePixels(...) settles: its then-callback encodes at the
\* final size and disposes the internal texture.
ReadTexturePixelsSettled(r, ok) ==
    /\ req[r].pc = "readTexturePixels"
    /\ IF ok
       THEN /\ req' = [req EXCEPT ![r].pc = "encoding",
                                  ![r].texture = DisposeInternalTexture(@)]
            /\ hist' = [hist EXCEPT ![r] =
                          DumpData(@, req[r].finalWidth, req[r].finalHeight, TRUE)]
       ELSE /\ req' = [req EXCEPT ![r].pc = "readbackFailed"]
            /\ UNCHANGED hist
    /\ UNCHANGED <<engine, scene, camera>>
    /\ UNCHANGED elsewhere

\* The encoder hands the encoded data to successCallback, which resolves the
\* promise of CreateScreenshotUsingRenderTargetAsync, or, for a capture
\* started by CreateScreenshot, passes the data on or downloads it and passes
\* "" on when forceDownload is set.
SuccessCallback(r) ==
    /\ req[r].pc = "encoding"
    /\ req' = [req EXCEPT ![r].pc = "done",
                          ![r].promise = IF @ = "pending" THEN "resolved" ELSE @]
    /\ hist' = [hist EXCEPT ![r].successCalls = @ + 1,
                            ![r].restoredBeforeCallback = hist[r].restored,
                            ![r].callbackData =
                                IF req[r].forceDownload THEN "empty" ELSE "data"]
    /\ UNCHANGED <<engine, scene, camera>>
    /\ UNCHANGED elsewhere

\* --------------------------------------------------------- CreateScreenshot
\* A CreateScreenshot that never takes the render-target path.
UsesRenderTargetNever(s, cam) == FALSE

\* if (scene.activeCamera !== camera): the capture goes through
\* CreateScreenshotUsingRenderTarget.
UsesRenderTarget(s, cam) == s.activeCamera # cam

\* CreateScreenshot(engine, camera, size, successCallback, mimeType,
\* forceDownload): an invalid size returns; a camera other than the active
\* one calls CreateScreenshotUsingRenderTarget with a wrapped callback, one
\* sample, the antialias option of the engine and no sprites, and returns;
\* the active camera registers the end-of-frame canvas copy.
CreateScreenshot(r, cam, size, forceDownload) ==
    LET renderWidth == GetRenderWidth(engine, req)
        sz == GetScreenshotSize(size, renderWidth, engine.aspectRatio)
        closure == [req[r] EXCEPT !.entry = "CreateScreenshot",
                                  !.forceDownload = forceDownload]
        seen == [hist[r] EXCEPT !.sceneAtCall = SceneAtCall(scene),
                                !.preCall = EngineOverrideState(engine)]
    IN IF InvalidSize(sz)
       THEN /\ req[r].pc = "idle"
            /\ \A q \in Requests : q < r => req[q].pc # "idle"
            /\ req' = [req EXCEPT ![r] =
                         [closure EXCEPT !.pc = "invalid", !.camera = cam,
                                         !.size = size]]
            /\ hist' = [hist EXCEPT ![r] =
                          [seen EXCEPT !.renderWidthAtCall = renderWidth,
                                       !.aspectAtCall = engine.aspectRatio,
                                       !.resolved = sz]]
            /\ UNCHANGED <<engine, scene, camera, elsewhere>>
       ELSE IF UsesRenderTarget(scene, cam)
       THEN RenderTargetCapture(r, closure,
                                [seen EXCEPT !.path = "renderTarget"],
                                cam, size, engine.antialias, FALSE)
       ELSE /\ req[r].pc = "idle"
            /\ \A q \in Requests : q < r => req[q].pc # "idle"
            /\ engine' = AddOnceEndFrame(engine, r)
            /\ req' = [req EXCEPT ![r] =
                         [closure EXCEPT !.pc = "awaitCanvasFrame",
                                         !.camera = cam, !.size = size,
                                         !.width = sz.width,
                                         !.height = sz.height]]
            /\ hist' = [hist EXCEPT ![r] =
                          [seen EXCEPT !.path = "canvas",
                                       !.canvasCopies = @ + 1,
                                       !.renderWidthAtCall = renderWidth,
                                       !.aspectAtCall = engine.aspectRatio,
                                       !.resolved = sz]]
            /\ UNCHANGED <<scene, camera, elsewhere>>

\* -------------------------------------------------------------- specification
CaptureNext(arguments) ==
    \/ \E r \in Requests, a \in arguments :
          CreateScreenshotUsingRenderTarget(r, a.camera, a.size, a.antialiasing,
                                            a.renderSprites)
    \/ \E r \in Requests, ready \in BOOLEAN : EffectCreated(r, ready)
    \/ \E r \in Requests : EffectCompiled(r)
    \/ \E r \in Requests, renderThrows \in BOOLEAN : RetrySuccess(r, renderThrows)
    \/ \E r \in Requests : RetryError(r)
    \/ EndFrame
    \/ \E r \in Requests, ok \in BOOLEAN : ReadPixelsSettled(r, ok)
    \/ \E r \in Requests : ImportResolved(r)
    \/ \E r \in Requests, ok \in BOOLEAN : ApplyPostProcessSettled(r, ok)
    \/ \E r \in Requests, ok \in BOOLEAN : ReadTexturePixelsSettled(r, ok)
    \/ \E r \in Requests : SuccessCallback(r)

Next == CaptureNext(CaptureArgs)

Spec == Init /\ [][Next]_vars

\* The callbacks of request r that the event loop has pending.
Progress(r) ==
    \/ \E ready \in BOOLEAN : EffectCreated(r, ready)
    \/ EffectCompiled(r)
    \/ \E t \in BOOLEAN : RetrySuccess(r, t)
    \/ RetryError(r)
    \/ \E ok \in BOOLEAN : ReadPixelsSettled(r, ok)
    \/ ImportResolved(r)
    \/ \E ok \in BOOLEAN : ApplyPostProcessSettled(r, ok)
    \/ \E ok \in BOOLEAN : ReadTexturePixelsSettled(r, ok)
    \/ SuccessCallback(r)

\* The environment of a capture keeps going: the effect is created and
\* compiled, the readiness wait ends, frames end, and every pending promise
\* and the encoder settle.
Fairness ==
    /\ WF_vars(EndFrame)
    /\ \A r \in Requests : WF_vars(Progress(r))

LiveSpec == Spec /\ Fairness

\* ------------------------------------- captures with size objects, one engine
\* The arguments of captures that all pass the size check: a size object
\* whose final size differs from its raw size (with antialiasing), one whose
\* final size is its raw size, and one giving only a precision, whose size
\* follows the render width the engine reports at the call.
SizedArgs ==
    { [camera |-> "camB", size |-> ObjectSize(Num(2), Num(1), Num(4), Num(2), Absent),
       antialiasing |-> TRUE, renderSprites |-> FALSE],
      [camera |-> "camB", size |-> ObjectSize(Num(2), Num(1), Num(2), Num(1), Absent),
       antialiasing |-> FALSE, renderSprites |-> FALSE],
      [camera |-> "camA", size |-> ObjectSize(Absent, Absent, Absent, Absent, Num(2)),
       antialiasing |-> FALSE, renderSprites |-> TRUE] }

SizedInit ==
    /\ InitCapture({Environment(4, <<2, 1>>, TRUE)}, {TRUE})
    /\ ModulesAside

SizedNext == CaptureNext(SizedArgs)

SizedSpec == SizedInit /\ [][SizedNext]_vars

\* ------------------------------------------------------- CreateScreenshot
\* The arguments of the CreateScreenshot calls: the active camera camA with
\* and without forceDownload, another camera with a numeric size and with a
\* size object whose final size differs, and an invalid size.
ScreenshotArgs ==
    { [camera |-> "camA", size |-> NumberSize(2), forceDownload |-> FALSE],
      [camera |-> "camA", size |-> ObjectSize(Num(4), Absent, Absent, Absent, Absent),
       forceDownload |-> TRUE],
      [camera |-> "camB", size |-> NumberSize(2), forceDownload |-> TRUE],
      [camera |-> "camB", size |-> ObjectSize(Num(2), Num(1), Num(4), Num(2), Absent),
       forceDownload |-> FALSE],
      [camera |-> "camB", size |-> NumberSize(0), forceDownload |-> FALSE] }

ScreenshotInit ==
    /\ InitCapture({Environment(4, <<2, 1>>, TRUE)}, BOOLEAN)
    /\ ModulesAside

\* CreateScreenshot and every callback it leaves pending, those of the
\* render-target capture it may start included.
ScreenshotNext ==
    \/ \E r \in Requests, a \in ScreenshotArgs :
          CreateScreenshot(r, a.camera, a.size, a.forceDownload)
    \/ \E r \in Requests, ready \in BOOLEAN : EffectCreated(r, ready)
    \/ \E r \in Requests : EffectCompiled(r)
    \/ \E r \in Requests, renderThrows \in BOOLEAN : RetrySuccess(r, renderThrows)
    \/ \E r \in Requests : RetryError(r)
    \/ \E available \in BOOLEAN : EndOfFrame(available)
    \/ \E r \in Requests, ok \in BOOLEAN : ReadPixelsSettled(r, ok)
    \/ \E r \in Requests : ImportResolved(r)
    \/ \E r \in Requests, ok \in BOOLEAN : ApplyPostProcessSettled(r, ok)
    \/ \E r \in Requests, ok \in BOOLEAN : ReadTexturePixelsSettled(r, ok)
    \/ \E r \in Requests : SuccessCallback(r)

ScreenshotSpec == ScreenshotInit /\ [][ScreenshotNext]_vars

\* ------------------------------------ CreateScreenshot of the active camera
\* The arguments of the CreateScreenshot calls that copy the rendering
\* canvas: the active camera camA, at three sizes, with and without
\* forceDownload.
CanvasArgs ==
    { [camera |-> "camA", size |-> NumberSize(2), forceDownload |-> FALSE],
      [camera |-> "camA", size |-> ObjectSize(Num(4), Absent, Absent, Absent, Absent),
       forceDownload |-> TRUE],
      [camera |-> "camA", size |-> ObjectSize(Num(3), Num(1), Absent, Absent, Absent),
       forceDownload |-> FALSE],
      [camera |-> "camA", size |-> NumberSize(1), forceDownload |-> TRUE] }

CanvasInit ==
    /\ InitCapture({Environment(4, <<2, 1>>, TRUE)}, {TRUE})
    /\ ModulesAside

\* CreateScreenshot of the active camera, the end of a frame, which runs the
\* canvas observers pending on it, and the encoder's call of successCallback.
CanvasNext ==
    \/ \E r \in Requests, a \in CanvasArgs :
          CreateScreenshot(r, a.camera, a.size, a.forceDownload)
    \/ \E available \in BOOLEAN : EndOfFrame(available)
    \/ \E r \in Requests : SuccessCallback(r)

CanvasSpec == CanvasInit /\ [][CanvasNext]_vars

\* -------------------------------------- the scene changed during a capture
\* The array object the application may assign to scene.meshes in place of
\* the scene's first array.
OtherMeshes == <<"scene.meshes", 1>>

\* The arguments of the captures during which the scene is changed.
SceneChangeArgs ==
    { [camera |-> "camB", size |-> NumberSize(2),
       antialiasing |-> FALSE, renderSprites |-> FALSE],
      [camera |-> "camA", size |-> NumberSize(2),
       antialiasing |-> FALSE, renderSprites |-> TRUE] }

\* A capture is between its call and its render pass.
CapturePending == \E r \in Requests : OverrideActive(req, r)

\* While a capture is pending the application switches to another camera
\* setup: it assigns scene.activeCamera, scene.activeCameras and
\* scene.spritesEnabled.
SwitchCameras(c, cameras, enabled) ==
    /\ CapturePending
    /\ scene.activeCamera # c /\ scene.activeCameras # cameras
    /\ scene.spritesEnabled # enabled
    /\ scene' = [scene EXCEPT !.activeCamera = c, !.activeCameras = cameras,
                              !.spritesEnabled = enabled]
    /\ UNCHANGED <<engine, camera, req, hist, elsewhere>>

\* While a capture is pending the application adds a mesh to the array
\* scene.meshes holds and removes another from it.
ChangeMeshes(added, removed) ==
    /\ CapturePending
    /\ added \notin scene.meshContents /\ removed \in scene.meshContents
    /\ scene' = [scene EXCEPT !.meshContents = (@ \cup {added}) \ {removed}]
    /\ UNCHANGED <<engine, camera, req, hist, elsewhere>>

\* While a capture is pending the application assigns another array, with
\* the same meshes, to scene.meshes.
SetMeshes(array) ==
    /\ CapturePending /\ scene.meshes # array
    /\ scene' = [scene EXCEPT !.meshes = array]
    /\ UNCHANGED <<engine, camera, req, hist, elsewhere>>

SceneChangeInit ==
    /\ InitCapture({Environment(4, <<2, 1>>, FALSE)}, {TRUE})
    /\ ModulesAside

\* The handlers of a capture without antialiasing up to its restoration, and
\* the changes the application makes to the scene meanwhile.
SceneChangeNext ==
    \/ \E r \in Requests, a \in SceneChangeArgs :
          CreateScreenshotUsingRenderTarget(r, a.camera, a.size, a.antialiasing,
                                            a.renderSprites)
    \/ \E r \in Requests, renderThrows \in BOOLEAN : RetrySuccess(r, renderThrows)
    \/ \E r \in Requests : RetryError(r)
    \/ SwitchCameras("camB", "cameras", FALSE)
    \/ ChangeMeshes("mesh3", "mesh1")
    \/ SetMeshes(OtherMeshes)

SceneChangeSpec == SceneChangeInit /\ [][SceneChangeNext]_vars

\* ----------------------------------------- reads of the overridden accessors
\* The arguments of the captures whose accessors are read: sizes other than
\* that of the canvas and of the nested render target.
AccessorArgs ==
    { [camera |-> "camB", size |-> NumberSize(3),
       antialiasing |-> FALSE, renderSprites |-> FALSE],
      [camera |-> "camA", size |-> ObjectSize(Num(5), Num(6), Absent, Absent, Absent),
       antialiasing |-> FALSE, renderSprites |-> TRUE] }

\* The engine binds a render target of its own while an override is
\* installed, or unbinds it.
BindRenderTarget(target) ==
    /\ engine.currentRenderTarget # target
    /\ target.bound => engine.getRenderWidth # OriginalAccessor
    /\ engine' = [engine EXCEPT !.currentRenderTarget = target]
    /\ UNCHANGED <<scene, camera, req, hist, elsewhere>>

\* Code that runs while the override of a capture is installed (a resize
\* observer, the preparation of a render) calls
\* engine.getRenderWidth(useScreen) and engine.getRenderHeight(useScreen).
ReadRenderSize(useScreen) ==
    /\ engine.getRenderWidth # OriginalAccessor
    /\ engine.getRenderHeight # OriginalAccessor
    /\ reading' = [pc |-> "read", useScreen |-> useScreen,
                   getRenderWidth |-> engine.getRenderWidth,
                   getRenderHeight |-> engine.getRenderHeight,
                   currentRenderTarget |-> engine.currentRenderTarget,
                   width |-> RenderWidth(engine, req, useScreen),
                   height |-> RenderHeight(engine, req, useScreen)]
    /\ UNCHANGED <<captureState, sizing, registry, registryHist, audio>>

AccessorInit ==
    /\ InitCapture({Environment(4, <<2, 1>>, TRUE)}, {TRUE})
    /\ ModulesAside

\* The handlers between which the override of a capture without antialiasing
\* is installed: the call, and the two callbacks of the readiness wait, which
\* restore.
AccessorNext ==
    \/ \E r \in Requests, a \in AccessorArgs :
          CreateScreenshotUsingRenderTarget(r, a.camera, a.size, a.antialiasing,
                                            a.renderSprites)
    \/ \E r \in Requests : RetrySuccess(r, FALSE)
    \/ \E r \in Requests : RetryError(r)
    \/ \E target \in {NoRenderTarget, NestedRenderTarget} : BindRenderTarget(target)
    \/ \E useScreen \in BOOLEAN : ReadRenderSize(useScreen)

AccessorSpec == AccessorInit /\ [][AccessorNext]_vars

\* ----------------------------------------------------- resize notifications
\* Engines with and without resize observers, on a 4 by 2 canvas.
ResizeEnvironments ==
    { Environment(4, <<2, 1>>, ro) : ro \in BOOLEAN }

ResizeInit ==
    /\ InitCapture(ResizeEnvironments, {TRUE})
    /\ ModulesAside

\* The handlers that notify the resize observers or restore the accessors:
\* the call and the two callbacks of the readiness wait.
ResizeNext ==
    \/ \E r \in Requests, a \in AccessorArgs :
          CreateScreenshotUsingRenderTarget(r, a.camera, a.size, a.antialiasing,
                                            a.renderSprites)
    \/ \E r \in Requests, renderThrows \in BOOLEAN : RetrySuccess(r, renderThrows)
    \/ \E r \in Requests : RetryError(r)

ResizeSpec == ResizeInit /\ [][ResizeNext]_vars

\* ------------------------------------------- glTF loader extension registry
\* Map.prototype.has, on a map kept as the sequence of its entries in
\* insertion order.
MapHas(m, name) == \E i \in DOMAIN m : m[i].name = name

\* Map.prototype.delete that removes nothing.
MapDeleteNothing(m, name) == m

\* Map.prototype.delete that removes the oldest entry, whatever its key.
MapDeleteFirst(m, name) == IF m = <<>> THEN m ELSE Tail(m)

\* Map.prototype.delete: the entry of the key removed, the others kept in
\* their order.
MapDelete(m, name) ==
    LET keep(e) == e.name # name IN SelectSeq(m, keep)

\* Map.prototype.set that puts a new key before the others.
MapSetPrepends(m, name, value) ==
    LET entry == [name |-> name, isGLTFExtension |-> value.isGLTFExtension,
                  factory |-> value.factory]
    IN IF \E i \in DOMAIN m : m[i].name = name
       THEN [i \in DOMAIN m |-> IF m[i].name = name THEN entry ELSE m[i]]
       ELSE <<entry>> \o m

\* Map.prototype.set: the value of an existing key replaced in place, a new
\* key appended.
MapSet(m, name, value) ==
    LET entry == [name |-> name, isGLTFExtension |-> value.isGLTFExtension,
                  factory |-> value.factory]
    IN IF MapHas(m, name)
       THEN [i \in DOMAIN m |-> IF m[i].name = name THEN entry ELSE m[i]]
       ELSE Append(m, entry)

\* unregisterGLTFExtension(name): returns RegisteredGLTFExtensions.delete(name).
unregisterGLTFExtension(name) ==
    /\ registry' = MapDelete(registry, name)
    /\ registryHist' =
          [op |-> "unregister", name |-> name,
           returned |-> MapHas(registry, name), warned |-> FALSE,
           before |-> registry,
           latest |-> [registryHist.latest EXCEPT ![name] = NotRegistered]]
    /\ UNCHANGED <<captureState, sizing, audio, reading>>

\* registerGLTFExtension(name, isGLTFExtension, factory): unregisters the
\* name, warning when it was registered, and sets the new entry.
registerGLTFExtension(name, isGLTFExtension, factory) ==
    /\ registry' = MapSet(MapDelete(registry, name), name,
                          [isGLTFExtension |-> isGLTFExtension,
                           factory |-> factory])
    /\ registryHist' =
          [op |-> "register", name |-> name, returned |-> FALSE,
           warned |-> MapHas(registry, name), before |-> registry,
           latest |-> [registryHist.latest EXCEPT ![name] =
                         [registered |-> TRUE,
                          isGLTFExtension |-> isGLTFExtension,
                          factory |-> factory]]]
    /\ UNCHANGED <<captureState, sizing, audio, reading>>

RegistryInit ==
    /\ QuietCapture
    /\ sizing = NoSizing
    /\ registry = <<>>
    /\ registryHist = NoRegistryCall
    /\ audio = AudioAside
    /\ reading = NoReading

RegistryNext ==
    \/ \E name \in ExtensionNames, isGLTFExtension \in BOOLEAN,
          factory \in Factories :
             registerGLTFExtension(name, isGLTFExtension, factory)
    \/ \E name \in ExtensionNames : unregisterGLTFExtension(name)

RegistrySpec == RegistryInit /\ [][RegistryNext]_vars

\* ------------------------------------------- GetScreenshotSize on its own
\* Largest magnitude of a width, height or numeric size handed to
\* GetScreenshotSize.
MaxDim == 3

\* A width or height property of a size object: absent, zero, negative or
\* positive.
DimValues == {Absent} \cup {Num(n) : n \in -MaxDim..MaxDim}

\* A finalWidth or finalHeight property of a size object.
FinalValues == {Absent, Num(0), Num(1), Num(MaxDim)}

\* The precision property of a size object.
PrecisionValues == {Absent, Num(0), Num(2), Num(-2), Half(1), Half(-3)}

\* The size arguments: numbers (negative, zero, positive, NaN, and at or
\* above 2^31) and size objects.
SizeArguments ==
    {NumberSize(n) : n \in -MaxDim..MaxDim}
    \cup {[NumberSize(0) EXCEPT !.n = x] : x \in {NaN, Big(0), Big(MaxDim)}}
    \cup {ObjectSize(w, h, fw, fh, p) :
            w \in DimValues, h \in DimValues,
            fw \in FinalValues, fh \in FinalValues, p \in PrecisionValues}

\* What engine.getRenderWidth() and engine.getAspectRatio(camera) return.
RenderWidths == {0, MaxDim + 2}
AspectRatios == {<<2, 1>>, <<1, 2>>, <<3, 2>>, <<0, 1>>}

\* A caller is about to resolve a size.
SizeInit ==
    /\ QuietCapture
    /\ \E size \in SizeArguments, w \in RenderWidths, a \in AspectRatios :
          sizing = [pc |-> "called", size |-> size, renderWidth |-> w,
                    aspect |-> a, valid |-> FALSE,
                    result |-> [height |-> 0, width |-> 0,
                                finalWidth |-> 0, finalHeight |-> 0]]
    /\ registry = <<>>
    /\ registryHist = RegistryAside
    /\ audio = AudioAside
    /\ reading = NoReading

\* const { height, width, finalWidth, finalHeight } = GetScreenshotSize(...)
\* and the check if (!(height && width)) of the caller.
ResolveSize ==
    /\ sizing.pc = "called"
    /\ LET sz == GetScreenshotSize(sizing.size, sizing.renderWidth, sizing.aspect)
       IN sizing' = [sizing EXCEPT !.pc = "resolved", !.result = sz,
                                   !.valid = ~InvalidSize(sz)]
    /\ UNCHANGED <<captureState, registry, registryHist, audio, reading>>

SizeNext == ResolveSize

SizeSpec == SizeInit /\ [][SizeNext]_vars

\* ------------------------------------------------------------- AudioEngine
\* Promises of the audio context that one engine has pending at a time.
MaxPending == 2

\* The volumes handed to setGlobalVolume: numbers a gain stores exactly.
Volumes == {-1, 0, 2}

\* The audio context handed to the constructor, by its state: none (null), or
\* a suspended or a running one.
ContextArguments == {"null", "suspended", "running"}

\* Where _initializeAudioContext may throw: nowhere, in new AudioContext(),
\* in createGain() or in masterGain.connect().
ThrowPoints == {"none", "AudioContext", "createGain", "connect"}

\* The state in which the browser creates an AudioContext.
CreatedStates == {"suspended", "running"}

\* No promise is pending: resume() calls awaited by _triggerRunningStateAsync,
\* Promise.resolve() awaited by it for want of a context, suspend() calls of
\* unlock().
NoPromises == [resume |-> 0, resolved |-> 0, suspend |-> 0]

Pending(a) == a.pending.resume + a.pending.resolved + a.pending.suspend

\* new AudioEngine(hostElement, audioContext, audioDestination) in a window:
\* canUseWebAudio tells whether window.AudioContext is defined.
NewAudioEngine(canUseWebAudio, audioContext, useCustomUnlockedButton) ==
    [canUseWebAudio |-> canUseWebAudio,
     audioContextInitialized |-> FALSE,
     audioContext |-> audioContext,
     masterGain |-> [created |-> FALSE, value |-> 0],
     unlocked |-> FALSE,
     useCustomUnlockedButton |-> useCustomUnlockedButton,
     muteButton |-> FALSE,
     tryToRun |-> FALSE, clearedInFlight |-> FALSE,
     pending |-> NoPromises,
     op |-> "new", arg |-> 0, returned |-> 0, notified |-> "none",
     unlockedBefore |-> FALSE, stateAtCall |-> audioContext,
     before |-> [op |-> "none", arg |-> 0]]

\* A handler of the engine starts: what it is, its argument, and what the
\* engine was when it started.
Called(a, op, arg) ==
    [a EXCEPT !.op = op, !.arg = arg, !.returned = 0, !.notified = "none",
              !.unlockedBefore = a.unlocked, !.stateAtCall = a.audioContext,
              !.before = [op |-> a.op, arg |-> a.arg]]

\* _hideMuteButton().
HideMuteButton(a) == [a EXCEPT !.muteButton = FALSE]

\* _displayMuteButton().
DisplayMuteButton(a) ==
    IF a.useCustomUnlockedButton \/ a.muteButton THEN a
    ELSE [a EXCEPT !.muteButton = TRUE]

\* _triggerSuspendedState().
TriggerSuspendedState(a) ==
    DisplayMuteButton([a EXCEPT !.unlocked = FALSE, !.notified = "locked"])

\* A _triggerRunningStateAsync() that does not look at _tryToRun.
TriggerRunningStateAsyncUnguarded(a) ==
    IF a.audioContext # "null"
    THEN [a EXCEPT !.tryToRun = TRUE, !.pending.resume = @ + 1]
    ELSE [a EXCEPT !.tryToRun = TRUE, !.pending.resolved = @ + 1]

\* _triggerRunningStateAsync() up to its await: nothing while _tryToRun is
\* set; otherwise the flag is set and _resumeAudioContextAsync() awaited,
\* which is resume() of the context or, without a context, Promise.resolve().
TriggerRunningStateAsync(a) ==
    IF a.tryToRun THEN a
    ELSE IF a.audioContext # "null"
    THEN [a EXCEPT !.tryToRun = TRUE, !.pending.resume = @ + 1]
    ELSE [a EXCEPT !.tryToRun = TRUE, !.pending.resolved = @ + 1]

\* An unlock of a running context that notifies every time.
UnlockRunningAlwaysNotifies(a) ==
    [HideMuteButton(a) EXCEPT !.unlocked = TRUE, !.notified = "unlocked"]

\* unlock() when the context is running: the mute button is hidden, and the
\* engine is flagged unlocked and the observers notified if it was not.
UnlockRunning(a) ==
    IF ~a.unlocked
    THEN [HideMuteButton(a) EXCEPT !.unlocked = TRUE, !.notified = "unlocked"]
    ELSE HideMuteButton(a)

\* unlock() when the context is not running: with a resume pending
\* (_tryToRun) the context, if any, is asked to suspend; otherwise
\* _triggerRunningStateAsync() is called.
UnlockNotRunning(a) ==
    IF a.tryToRun
    THEN (IF a.audioContext # "null"
          THEN [a EXCEPT !.pending.suspend = @ + 1] ELSE a)
    ELSE TriggerRunningStateAsync(a)

\* _initializeAudioContext(): the context is created if there is none, the
\* master gain created, set to 1 and connected, and a running context
\* triggers the running state; an exception clears canUseWebAudio.
InitializeAudioContext(a, created, throws) ==
    IF ~a.canUseWebAudio THEN a
    ELSE IF throws = "AudioContext" /\ a.audioContext = "null"
    THEN [a EXCEPT !.canUseWebAudio = FALSE]
    ELSE LET a1 == IF a.audioContext = "null"
                   THEN [a EXCEPT !.audioContext = created] ELSE a
         IN IF throws = "createGain"
            THEN [a1 EXCEPT !.canUseWebAudio = FALSE]
            ELSE LET a2 == [a1 EXCEPT !.masterGain =
                                         [created |-> TRUE, value |-> 1]]
                 IN IF throws = "connect"
                    THEN [a2 EXCEPT !.canUseWebAudio = FALSE]
                    ELSE LET a3 == [a2 EXCEPT !.audioContextInitialized = TRUE]
                         IN IF a3.audioContext = "running"
                            THEN TriggerRunningStateAsync(a3) ELSE a3

\* A getGlobalVolume that returns the gain whenever there is one.
GetGlobalVolumeUnguarded(a) ==
    IF a.masterGain.created THEN a.masterGain.value ELSE -1

\* getGlobalVolume().
GetGlobalVolume(a) ==
    IF a.canUseWebAudio /\ a.audioContextInitialized
    THEN a.masterGain.value ELSE -1

\* setGlobalVolume(newVolume).
SetGlobalVolume(a, newVolume) ==
    IF a.canUseWebAudio /\ a.audioContextInitialized
    THEN [a EXCEPT !.masterGain.value = newVolume] ELSE a

\* The handlers of the engine leave the captures and the registry alone.
AudioOnly == UNCHANGED <<captureState, sizing, registry, registryHist, reading>>

\* get audioContext(): initializes the context on first use.
GetAudioContext(created, throws) ==
    /\ Pending(audio) < MaxPending
    /\ audio' = LET a == Called(audio, "audioContext", 0)
                IN IF ~a.audioContextInitialized
                   THEN InitializeAudioContext(a, created, throws) ELSE a
    /\ AudioOnly

\* lock().
lock ==
    /\ audio' = TriggerSuspendedState(Called(audio, "lock", 0))
    /\ AudioOnly

\* unlock().
unlock ==
    /\ Pending(audio) < MaxPending
    /\ audio' = LET a == Called(audio, "unlock", 0)
                IN IF a.audioContext = "running"
                   THEN UnlockRunning(a) ELSE UnlockNotRunning(a)
    /\ AudioOnly

\* The touchend listener of the mute button: _triggerRunningStateAsync().
MuteButtonTouchEnd ==
    /\ audio.muteButton
    /\ Pending(audio) < MaxPending
    /\ audio' = TriggerRunningStateAsync(Called(audio, "touchend", 0))
    /\ AudioOnly

\* The promise awaited by _triggerRunningStateAsync() settles. A resume()
\* that resolves has the context running, unless it was closed meanwhile;
\* Promise.resolve() only resolves. The continuation clears _tryToRun and
\* flags the engine unlocked and notifies, or, in catch, flags it locked.
ResumeSettled(kind, ok) ==
    /\ audio.pending[kind] > 0
    /\ kind \in {"resume", "resolved"}
    /\ kind = "resolved" => ok
    /\ LET a == [Called(audio, "resumeSettled", 0) EXCEPT !.pending[kind] = @ - 1]
           a1 == IF ok /\ kind = "resume" /\ a.audioContext = "suspended"
                 THEN [a EXCEPT !.audioContext = "running"] ELSE a
       IN audio' = IF ok
                   THEN [HideMuteButton(a1) EXCEPT !.tryToRun = FALSE,
                                                   !.unlocked = TRUE,
                                                   !.notified = "unlocked"]
                   ELSE [a1 EXCEPT !.tryToRun = FALSE, !.unlocked = FALSE]
    /\ AudioOnly

\* The suspend() promise of unlock() settles: resolved, the context is
\* suspended, _tryToRun is cleared and _triggerRunningStateAsync() called;
\* rejected, an error is logged. clearedInFlight remembers that the flag was
\* cleared here while it was set, a promise being still awaited.
SuspendSettled(ok) ==
    /\ audio.pending.suspend > 0
    /\ LET a == [Called(audio, "suspendSettled", 0) EXCEPT !.pending.suspend = @ - 1]
           a1 == IF a.audioContext = "running"
                 THEN [a EXCEPT !.audioContext = "suspended"] ELSE a
       IN audio' = IF ok
                   THEN TriggerRunningStateAsync(
                            [a1 EXCEPT !.tryToRun = FALSE,
                                       !.clearedInFlight = @ \/ a1.tryToRun])
                   ELSE a
    /\ AudioOnly

\* dispose(): the gain of an initialized engine is reset to 1, the mute
\* button hidden, the context closed and dropped.
dispose ==
    /\ audio' = LET a == Called(audio, "dispose", 0)
                    a1 == IF a.canUseWebAudio /\ a.audioContextInitialized
                          THEN [a EXCEPT !.masterGain.value = 1] ELSE a
                IN [HideMuteButton(a1) EXCEPT !.audioContext = "null"]
    /\ AudioOnly

\* getGlobalVolume() is called and returns.
getGlobalVolume ==
    /\ audio' = [Called(audio, "getGlobalVolume", 0) EXCEPT
                    !.returned = GetGlobalVolume(audio)]
    /\ AudioOnly

\* setGlobalVolume(newVolume) is called.
setGlobalVolume(newVolume) ==
    /\ audio' = SetGlobalVolume(Called(audio, "setGlobalVolume", newVolume),
                                newVolume)
    /\ AudioOnly

AudioInit ==
    /\ QuietCapture
    /\ sizing = NoSizing
    /\ registry = <<>>
    /\ registryHist = RegistryAside
    /\ reading = NoReading
    /\ \E canUseWebAudio \in BOOLEAN, audioContext \in ContextArguments,
          useCustomUnlockedButton \in BOOLEAN :
            audio = NewAudioEngine(canUseWebAudio, audioContext,
                                   useCustomUnlockedButton)

AudioNext ==
    \/ \E created \in CreatedStates, throws \in ThrowPoints :
          GetAudioContext(created, throws)
    \/ lock
    \/ unlock
    \/ MuteButtonTouchEnd
    \/ \E kind \in {"resume", "resolved"}, ok \in BOOLEAN : ResumeSettled(kind, ok)
    \/ \E ok \in BOOLEAN : SuspendSettled(ok)
    \/ dispose
    \/ getGlobalVolume
    \/ \E newVolume \in Volumes : setGlobalVolume(newVolume)

AudioSpec == AudioInit /\ [][AudioNext]_vars

\* ---------------------------------------------------------------- properties
\* The request has been through the success callback of the readiness wait.
PastRender(r) ==
    req[r].pc \in {"awaitEndFrame", "readPixels", "import", "applyPostProcess",
                   "readTexturePixels", "encoding", "done", "readbackFailed"}

\* C1: for a request with a valid size, scene.render() has been invoked
\* exactly once as soon as the readiness wait has succeeded, whichever way the
\* shader, readiness, end-of-frame and readback events are ordered, and never
\* before that nor a second time.
C1_RenderExactlyOnce ==
    \A r \in Requests :
        hist[r].renderCount = IF PastRender(r) THEN 1 ELSE 0

\* Both of two requests were captured to the end, one through the deferred
\* shader compilation, each with one render.
C1_Witness ==
    \E r, q \in Requests :
        /\ r # q
        /\ req[r].pc = "done" /\ req[r].antialiasing /\ hist[r].renderCount = 1
        /\ req[q].pc = "done" /\ hist[q].renderCount = 1

\* C2: after the render step the scene's activeCamera, activeCameras,
\* spritesEnabled and meshes and the camera's outputRenderTarget are what they
\* were just before the swap, whether scene.render() returned or threw.
C2_SceneSetupRestored ==
    \A r \in Requests :
        hist[r].renderCount > 0 => hist[r].postRender = hist[r].preSwap

\* One capture whose render returned and one whose render threw, each having
\* rendered under a setup that differed from the one it found.
C2_Witness ==
    \E r, q \in Requests :
        /\ hist[r].renderOutcome = "ok" /\ hist[q].renderOutcome = "threw"
        /\ \A x \in {r, q} :
              /\ hist[x].atRender.activeCamera # hist[x].preSwap.activeCamera
              /\ hist[x].atRender.spritesEnabled # hist[x].preSwap.spritesEnabled
              /\ hist[x].atRender.meshes # hist[x].preSwap.meshes
              /\ hist[x].atRender.outputRenderTarget # hist[x].preSwap.outputRenderTarget

\* C3: for a request that overlaps no other capture and has reached its render
\* step, the engine's getRenderWidth and getRenderHeight are afterwards the
\* functions installed before the call and skipFrameRender is false, whether
\* the render pass returned or threw.
C3_EngineRestored ==
    \A r \in Requests :
        (PastRender(r) /\ ~hist[r].overlapped) =>
            /\ hist[r].engineAfter.getRenderWidth = hist[r].preCall.getRenderWidth
            /\ hist[r].engineAfter.getRenderHeight = hist[r].preCall.getRenderHeight
            /\ hist[r].engineAfter.skipFrameRender = FALSE

\* Two captures one after the other, neither overlapping, one render returning
\* and one throwing, both rendered while the override was installed.
C3_Witness ==
    \E r, q \in Requests :
        /\ PastRender(r) /\ PastRender(q)
        /\ ~hist[r].overlapped /\ ~hist[q].overlapped
        /\ hist[r].renderOutcome = "ok" /\ hist[q].renderOutcome = "threw"
        /\ hist[r].engineAtRender.getRenderWidth = Override(r)
        /\ hist[q].engineAtRender.skipFrameRender

\* The request has ended: nothing of it is pending any more.
Ended(r) == req[r].pc \in {"done", "readbackFailed", "readyError"}

\* C4: the "screenShot" RenderTargetTexture of a capture is disposed on every
\* exit path: once the pixels were handed to the encoder (read back directly
\* or after the resize pass), and when the capture ended on a failed render,
\* a failed readback or a readiness wait that ended in error.
C4_SurfaceDisposedOnEveryExit ==
    \A r \in Requests :
        (Ended(r) \/ req[r].pc = "encoding") => req[r].texture.state = "disposed"

\* C5: a call whose size resolves to zero in width or height returns at the
\* size check and changes nothing: the engine (skipFrameRender, the accessors,
\* the end-of-frame observers), the scene and the cameras are unchanged, no
\* resize notification is sent, no surface is created, and successCallback is
\* never invoked for it.
C5_InvalidSizeMutatesNothing ==
    /\ [][\A r \in Requests :
            (req[r].pc = "idle" /\ req'[r].pc # "idle"
             /\ (hist'[r].resolved.width = 0 \/ hist'[r].resolved.height = 0)) =>
                /\ req'[r].pc = "invalid"
                /\ engine' = engine /\ scene' = scene /\ camera' = camera
                /\ hist'[r].resizeSeen = hist[r].resizeSeen
                /\ req'[r].texture.state = "none"]_vars
    /\ [](\A r \in Requests :
            req[r].pc = "invalid" =>
                /\ hist[r].successCalls = 0 /\ hist[r].encoderCalls = 0
                /\ req[r].texture.state = "none"
                /\ r \notin engine.onEndFrame)

\* A call with a size whose height alone resolved to zero was refused while
\* another capture's override was in place.
C5_Witness ==
    \E r \in Requests :
        /\ req[r].pc = "invalid"
        /\ hist[r].resolved.width # 0 /\ hist[r].resolved.height = 0
        /\ engine.skipFrameRender

\* The size object {width: 0}: a width of 0 and nothing else.
WidthZeroOnly == ObjectSize(Num(0), Absent, Absent, Absent, Absent)

\* C6 as stated: given size = {width: 0} the capture fails with an invalid
\* size, whatever the engine's render width and the aspect ratio are.
C6_WidthZeroAlwaysFails ==
    \A r \in Requests :
        (req[r].pc # "idle" /\ req[r].size = WidthZeroOnly) => req[r].pc = "invalid"

\* C6 amended: given size = {width: 0} the size resolves as when no width is
\* given, to the engine's current render width by that width divided by the
\* aspect ratio, rounded. The capture fails with an invalid size, creating no
\* surface, exactly when that width or height is zero; otherwise it proceeds
\* at that size.
C6_WidthZeroUsesRenderSize ==
    \A r \in Requests :
        (req[r].pc # "idle" /\ req[r].size = WidthZeroOnly) =>
            LET w == hist[r].renderWidthAtCall
                a == hist[r].aspectAtCall
                zero == w = 0 \/ a[1] = 0 \/ (2 * w * a[2] + a[1]) \div (2 * a[1]) = 0
            IN IF zero
               THEN req[r].pc = "invalid" /\ req[r].texture.state = "none"
               ELSE /\ req[r].pc # "invalid"
                    /\ req[r].width = w
                    /\ req[r].height = (2 * w * a[2] + a[1]) \div (2 * a[1])
                    /\ req[r].texture.width = w

\* A capture requested with {width: 0} went through to the end at the canvas
\* width 4 and the height 2 the aspect ratio 2 gives.
C6_Witness ==
    \E r \in Requests :
        /\ req[r].size = WidthZeroOnly /\ req[r].pc = "done"
        /\ req[r].width = 4 /\ req[r].height = 2

\* C7: the promise of CreateScreenshotUsingRenderTargetAsync is settled once
\* the request has ended: resolved after a successful capture, rejected after
\* an invalid size, a throwing render pass or a failed readback.
C7_PromiseSettles ==
    \A r \in Requests :
        /\ req[r].pc = "invalid" => req[r].promise = "rejected"
        /\ req[r].pc = "readbackFailed" => req[r].promise = "rejected"
        /\ (req[r].pc = "done" /\ hist[r].renderOutcome = "threw") =>
               req[r].promise = "rejected"
        /\ (req[r].pc = "done" /\ hist[r].renderOutcome = "ok") =>
               req[r].promise = "resolved"

\* C8: if scene.render() threw during a capture, neither the encoder nor
\* successCallback is ever invoked for that request, also not at the next
\* end-of-frame signal.
C8_NoOutputAfterRenderThrows ==
    \A r \in Requests :
        hist[r].renderOutcome = "threw" =>
            hist[r].encoderCalls = 0 /\ hist[r].successCalls = 0

\* The readiness wait ended in error, or a readback or resize promise was
\* rejected: the environment failed the request.
EnvironmentFailed(r) == req[r].pc \in {"readyError", "readbackFailed"}

\* C9: a request with a valid size, whose environment does not fail it, leads
\* to the encoder having been invoked exactly once and successCallback having
\* been invoked exactly once; neither is ever invoked a second time.
C9_EncodedExactlyOnce ==
    /\ [](\A r \in Requests : hist[r].encoderCalls <= 1 /\ hist[r].successCalls <= 1)
    /\ \A r \in Requests :
          (req[r].pc \notin {"idle", "invalid"}) ~>
              \/ EnvironmentFailed(r)
              \/ /\ req[r].pc = "done"
                 /\ hist[r].encoderCalls = 1 /\ hist[r].successCalls = 1

\* A capture through the resize pass and one read back directly have both
\* delivered their data, each after one encoder call.
C9_Witness ==
    \E r, q \in Requests :
        /\ req[r].pc = "done" /\ hist[r].resizePass
        /\ hist[r].encoderCalls = 1 /\ hist[r].successCalls = 1
        /\ req[q].pc = "done" /\ ~hist[q].resizePass
        /\ hist[q].encoderCalls = 1 /\ hist[q].successCalls = 1

\* What the render pass of request r finds when the override of r is fully in
\* place.
FullyOverridden(r) ==
    /\ hist[r].engineAtRender =
         [skipFrameRender |-> TRUE, getRenderWidth |-> Override(r),
          getRenderHeight |-> Override(r)]
    /\ hist[r].atRender.outputRenderTarget = ScreenShot(r)
    /\ req[r].texture.width = req[r].width
    /\ req[r].texture.height = req[r].height

\* C10 as stated: the render pass of every capture runs with skipFrameRender
\* true, the accessors of that capture installed and its surface configured,
\* and the restoration has run before successCallback is invoked.
C10_RenderSeesOverride ==
    \A r \in Requests :
        /\ hist[r].renderCount > 0 => FullyOverridden(r)
        /\ hist[r].successCalls > 0 => hist[r].restoredBeforeCallback

\* C10 amended: the render pass of a capture that overlaps no other capture
\* on the same engine runs with skipFrameRender true, the accessors of that
\* capture installed and its surface configured; and for every capture the
\* restoration has run before successCallback is invoked, whether the render
\* pass returned or threw.
C10_RenderSeesOverrideUnlessOverlapped ==
    \A r \in Requests :
        /\ (hist[r].renderCount > 0 /\ ~hist[r].overlapped) => FullyOverridden(r)
        /\ hist[r].successCalls > 0 => hist[r].restoredBeforeCallback

\* A capture that overlapped nothing rendered under its override, its render
\* threw, and its callback ran after the restoration.
C10_Witness ==
    \E r \in Requests :
        /\ ~hist[r].overlapped /\ hist[r].renderOutcome = "threw"
        /\ FullyOverridden(r)
        /\ hist[r].successCalls = 1 /\ hist[r].restoredBeforeCallback
        /\ hist[r].engineAfter.skipFrameRender = FALSE

\* The antialiasing post-process of the request has been added and its effect
\* has not yet let renderToTexture() run.
AwaitingEffect(r) == req[r].pc \in {"awaitEffect", "awaitCompile"}

\* C11: renderToTexture() runs at most once per request; while an antialiased
\* request waits for its effect to be created or compiled, renderToTexture()
\* has not run, the readiness wait has not started and nothing was rendered;
\* and once the effect was ready at its creation or its compilation callback
\* fired, renderToTexture() has run exactly once.
C11_RenderToTextureOnceAfterEffect ==
    \A r \in Requests :
        /\ hist[r].renderToTexture <= 1
        /\ AwaitingEffect(r) =>
              /\ req[r].antialiasing
              /\ hist[r].renderToTexture = 0
              /\ hist[r].renderCount = 0
              /\ ~RetryWaiting(req[r])
        /\ (req[r].antialiasing /\ ~AwaitingEffect(r)
              /\ req[r].pc \notin {"idle", "invalid"}) =>
              hist[r].renderToTexture = 1

\* One antialiased request waits for the compilation callback with
\* renderToTexture() not yet run, and another antialiased request was
\* captured to the end with one renderToTexture().
C11_Witness ==
    \E r, q \in Requests :
        /\ req[r].antialiasing /\ req[r].pc = "awaitCompile"
        /\ hist[r].renderToTexture = 0
        /\ req[q].antialiasing /\ req[q].pc = "done"
        /\ hist[q].renderToTexture = 1

\* No other capture has touched the engine since request r was called: none
\* was in flight at the call and none was started after it.
Alone(r) ==
    /\ ~hist[r].overlapped
    /\ \A q \in Requests : q > r => req[q].pc \in {"idle", "invalid"}

\* The override of request r is what the engine currently has.
OverrideInstalled(r) ==
    /\ engine.skipFrameRender
    /\ engine.getRenderWidth = Override(r)
    /\ engine.getRenderHeight = Override(r)

\* The engine has the frame rendering and the accessors request r saved.
OriginalsBack(r) ==
    /\ ~engine.skipFrameRender
    /\ engine.getRenderWidth = req[r].originalGetRenderWidth
    /\ engine.getRenderHeight = req[r].originalGetRenderHeight

\* C12 as stated: as long as the readiness wait of a capture has not
\* succeeded, the capture has not reached any restoration: skipFrameRender is
\* still true and its accessors are still installed, also after the readiness
\* wait ended in a timeout or error.
C12_NoRestorationWithoutReadiness ==
    \A r \in Requests :
        (Alone(r) /\ req[r].pc \notin {"idle", "invalid"}
           /\ hist[r].renderCount = 0) => OverrideInstalled(r)

\* C12 amended: while a capture waits for its effect or for readiness,
\* skipFrameRender is true and its accessors are installed; when the
\* readiness wait ends in its error callback, nothing was rendered and
\* skipFrameRender is false and the saved accessors are back.
C12_RestoredOnReadinessError ==
    \A r \in Requests :
        Alone(r) =>
            /\ (AwaitingEffect(r) \/ RetryWaiting(req[r])) => OverrideInstalled(r)
            /\ req[r].pc = "readyError" =>
                  /\ hist[r].renderCount = 0
                  /\ OriginalsBack(r)

\* The readiness wait of a capture that met no other capture ended in its
\* error callback, and the engine is as before the call.
C12_Witness ==
    \E r \in Requests :
        /\ Alone(r) /\ req[r].pc = "readyError"
        /\ hist[r].preCall.skipFrameRender = FALSE
        /\ EngineOverrideState(engine) = hist[r].preCall

\* The call of GetScreenshotSize has returned.
SizeResolved == sizing.pc = "resolved"

\* The 32-bit integer i is the JavaScript number x.
SameNumber(i, x) == x.t = "num" /\ i = x.v

\* All four resolved dimensions are the number x.
ResolvesTo(x) ==
    /\ SameNumber(sizing.result.width, x)
    /\ SameNumber(sizing.result.height, x)
    /\ SameNumber(sizing.result.finalWidth, x)
    /\ SameNumber(sizing.result.finalHeight, x)

IsRounded(i, p, q) ==
    /\ q > 0
    /\ 2 * i * q <= 2 * p + q
    /\ 2 * p + q < 2 * (i + 1) * q

\* The size object gives nothing but the non-zero property named first.
OnlyGiven(size, given, other) ==
    /\ size.kind = "object"
    /\ size[given].t = "num" /\ size[given].v # 0
    /\ size[other] = Absent
    /\ size.finalWidth = Absent /\ size.finalHeight = Absent
    /\ size.precision = Absent

\* C14: a size object with only a non-zero width w resolves, for a non-zero
\* aspect ratio a, to width w, height round(w / a), finalWidth = width and
\* finalHeight = height; with only a non-zero height h it resolves to height
\* h, width round(h * a), and the same final dimensions.
C14_OneDimensionFollowsAspectRatio ==
    SizeResolved =>
        /\ (OnlyGiven(sizing.size, "width", "height") /\ sizing.aspect[1] > 0) =>
              /\ sizing.result.width = sizing.size.width.v
              /\ IsRounded(sizing.result.height,
                           sizing.size.width.v * sizing.aspect[2],
                           sizing.aspect[1])
              /\ sizing.result.finalWidth = sizing.result.width
              /\ sizing.result.finalHeight = sizing.result.height
        /\ OnlyGiven(sizing.size, "height", "width") =>
              /\ sizing.result.height = sizing.size.height.v
              /\ IsRounded(sizing.result.width,
                           sizing.size.height.v * sizing.aspect[1],
                           sizing.aspect[2])
              /\ sizing.result.finalWidth = sizing.result.width
              /\ sizing.result.finalHeight = sizing.result.height

\* {width: 3} was resolved under the aspect ratio 2: the height is
\* round(1.5) = 2.
C14_Witness ==
    /\ SizeResolved /\ OnlyGiven(sizing.size, "width", "height")
    /\ sizing.size.width = Num(3) /\ sizing.aspect = <<2, 1>>
    /\ sizing.result = [height |-> 2, width |-> 3,
                        finalWidth |-> 3, finalHeight |-> 2]

\* C16: whenever the resolved size passes the check if (!(height && width)),
\* the resolved width and height are positive integers, for every numeric
\* size and every size object, negative values, negative precision, a zero
\* aspect ratio and values at or above 2^31 included.
C16_PositivePastValidation ==
    (SizeResolved /\ sizing.valid) =>
        /\ sizing.result.width > 0
        /\ sizing.result.height > 0

\* The size object gives width, height, finalWidth and finalHeight, and no
\* precision.
GivesAllFour(size) ==
    /\ size.kind = "object"
    /\ Truthy(size.width) /\ Truthy(size.height)
    /\ Truthy(size.finalWidth) /\ Truthy(size.finalHeight)
    /\ size.precision = Absent

\* The final size the size object asks for is not its raw size.
FinalDiffers(size) ==
    size.finalWidth # size.width \/ size.finalHeight # size.height

\* The request is in the resize branch of its end-of-frame observer.
Resizing(r) == req[r].pc \in {"import", "applyPostProcess", "readTexturePixels"}

\* C15: for a size object giving width, height, finalWidth and finalHeight,
\* the surface is allocated at width by height; when the final pair differs
\* from the raw pair the pixels are read only through the resize pass and the
\* encoder is called with finalWidth and finalHeight; when the pairs are the
\* same no resize pass runs and the encoder is called with width and height.
C15_ResizeOnlyWhenFinalDiffers ==
    \A r \in Requests :
        (GivesAllFour(req[r].size) /\ req[r].pc \notin {"idle", "invalid"}) =>
            LET size == req[r].size IN
            /\ req[r].texture.width = size.width.v
            /\ req[r].texture.height = size.height.v
            /\ Resizing(r) => FinalDiffers(size)
            /\ req[r].pc = "readPixels" => ~FinalDiffers(size)
            /\ hist[r].encoderCalls > 0 =>
                  IF FinalDiffers(size)
                  THEN /\ hist[r].resizePass
                       /\ hist[r].encoderWidth = size.finalWidth.v
                       /\ hist[r].encoderHeight = size.finalHeight.v
                  ELSE /\ ~hist[r].resizePass
                       /\ hist[r].encoderWidth = size.width.v
                       /\ hist[r].encoderHeight = size.height.v

\* One capture of {2, 1, 4, 2} was encoded at 4 by 2 after the resize pass
\* from its 2 by 1 surface, and one of {2, 1, 2, 1} at 2 by 1 without it.
C15_Witness ==
    \E r, q \in Requests :
        /\ GivesAllFour(req[r].size) /\ FinalDiffers(req[r].size)
        /\ req[r].texture.width = 2 /\ req[r].texture.height = 1
        /\ hist[r].resizePass
        /\ hist[r].encoderWidth = 4 /\ hist[r].encoderHeight = 2
        /\ GivesAllFour(req[q].size) /\ ~FinalDiffers(req[q].size)
        /\ hist[q].encoderCalls = 1 /\ ~hist[q].resizePass
        /\ hist[q].encoderWidth = 2 /\ hist[q].encoderHeight = 1

\* The path a CreateScreenshot call with a valid size has taken.
PathFollowsCamera ==
    \A r \in Requests :
        (req[r].entry = "CreateScreenshot"
           /\ req[r].pc \notin {"idle", "invalid"}) =>
            IF req[r].camera # hist[r].sceneAtCall.activeCamera
            THEN /\ hist[r].path = "renderTarget"
                 /\ req[r].texture.name = ScreenShot(r)
                 /\ hist[r].canvasCopies = 0
                 /\ req[r].pc # "awaitCanvasFrame"
            ELSE /\ hist[r].path = "canvas"
                 /\ hist[r].canvasCopies = 1
                 /\ req[r].texture = NoTexture
                 /\ hist[r].renderToTexture = 0 /\ hist[r].renderCount = 0

\* A step of the canvas path: the call that registers the canvas copy, or
\* the end of the frame in which the copy is made.
CanvasStep ==
    \E r \in Requests :
        \/ req[r].pc = "idle" /\ req'[r].pc = "awaitCanvasFrame"
        \/ req[r].pc = "awaitCanvasFrame" /\ req'[r].pc # "awaitCanvasFrame"

\* C17: a CreateScreenshot call with a valid size and a camera that is not
\* the scene's active camera goes through CreateScreenshotUsingRenderTarget
\* (its surface exists) and registers no canvas copy; a call with the active
\* camera registers the canvas copy and never starts a render-target capture
\* (no surface, no renderToTexture, no render pass), and neither that call
\* nor its end-of-frame observer changes skipFrameRender or the two
\* accessors.
C17_RenderTargetOnlyForOtherCamera ==
    /\ []PathFollowsCamera
    /\ [][CanvasStep =>
            EngineOverrideState(engine') = EngineOverrideState(engine)]_vars

\* One call with the active camera had its canvas copy encoded, and one with
\* another camera was rendered into its surface.
C17_Witness ==
    \E r, q \in Requests :
        /\ req[r].entry = "CreateScreenshot" /\ req[q].entry = "CreateScreenshot"
        /\ req[r].camera = hist[r].sceneAtCall.activeCamera
        /\ hist[r].path = "canvas" /\ hist[r].encoderCalls = 1
        /\ screenshotCanvas.created
        /\ req[q].camera # hist[q].sceneAtCall.activeCamera
        /\ hist[q].path = "renderTarget" /\ hist[q].renderCount = 1

\* Two requests with the same camera, size, antialiasing and sprite flag.
SameRequest(r, q) ==
    /\ req[r].camera = req[q].camera
    /\ req[r].size = req[q].size
    /\ req[r].antialiasing = req[q].antialiasing
    /\ req[r].renderSprites = req[q].renderSprites

\* The capture overlapped no other, its render pass returned and its pixels
\* were handed to the encoder.
CapturedAlone(r) ==
    /\ ~hist[r].overlapped
    /\ hist[r].renderOutcome = "ok"
    /\ hist[r].encoderCalls = 1

\* C18: two captures of the same request, neither overlapping another
\* capture, against the unchanged scene hand the encoder the same width and
\* height and the same pixel data: what the first one leaves behind changes
\* neither the size the second resolves nor what it renders.
C18_SequentialCapturesAgree ==
    \A r, q \in Requests :
        (r < q /\ SameRequest(r, q) /\ CapturedAlone(r) /\ CapturedAlone(q)) =>
            /\ hist[q].encoderWidth = hist[r].encoderWidth
            /\ hist[q].encoderHeight = hist[r].encoderHeight
            /\ hist[q].encoderData = hist[r].encoderData
            /\ hist[q].pixels = hist[r].pixels

\* Two captures of {precision: 2}, one after the other on the 4-wide canvas,
\* were both encoded at 8 by 4.
C18_Witness ==
    \E r, q \in Requests :
        /\ r < q /\ SameRequest(r, q) /\ CapturedAlone(r) /\ CapturedAlone(q)
        /\ req[r].size = ObjectSize(Absent, Absent, Absent, Absent, Num(2))
        /\ hist[r].encoderWidth = 8 /\ hist[q].encoderWidth = 8
        /\ hist[q].encoderData = "read"
        /\ hist[q].pixels.complete
        /\ hist[q].pixels.renderWidth = 8

\* The entries of the registry under a name.
EntriesOf(name) == {i \in DOMAIN registry : registry[i].name = name}

\* C19: after any sequence of register and unregister calls the registry has
\* at most one entry per name, it has one exactly for the names whose most
\* recent register call was not followed by an unregister call, and that
\* entry holds the isGLTFExtension flag and the factory of that register
\* call.
C19_OneEntryPerNameTheLatest ==
    \A name \in ExtensionNames :
        LET latest == registryHist.latest[name] IN
        /\ Cardinality(EntriesOf(name)) <= 1
        /\ latest.registered <=> EntriesOf(name) # {}
        /\ \A i \in EntriesOf(name) :
              /\ registry[i].isGLTFExtension = latest.isGLTFExtension
              /\ registry[i].factory = latest.factory

\* A name registered again with another factory holds the second
\* registration, next to a second name, while a third name is not registered.
C19_Witness ==
    /\ registryHist.op = "register" /\ registryHist.warned
    /\ \E i \in DOMAIN registryHist.before :
          /\ registryHist.before[i].name = registryHist.name
          /\ registryHist.before[i].factory # registryHist.latest[registryHist.name].factory
    /\ Len(registry) = 2
    /\ \E n \in ExtensionNames :
          ~registryHist.latest[n].registered

\* The entries of a registry as a set.
Entries(m) == {m[i] : i \in DOMAIN m}

\* C20: unregisterGLTFExtension(name) returns true exactly when the name was
\* registered at the call; afterwards the name is absent and the other
\* entries are the ones from before the call; for a name that was not
\* registered it returns false and the registry is unchanged.
C20_UnregisterRemovesOnlyTheName ==
    registryHist.op = "unregister" =>
        LET name == registryHist.name
            before == registryHist.before
            was == \E e \in Entries(before) : e.name = name
        IN /\ registryHist.returned <=> was
           /\ \A e \in Entries(registry) : e.name # name
           /\ Entries(registry) = {e \in Entries(before) : e.name # name}
           /\ Len(registry) = Len(before) - (IF was THEN 1 ELSE 0)
           /\ ~was => (~registryHist.returned /\ registry = before)

\* The second of three registered names was unregistered: the call returned
\* true and the other two entries are left.
C20_Witness ==
    /\ registryHist.op = "unregister" /\ registryHist.returned
    /\ Len(registryHist.before) = 3
    /\ registryHist.before[2].name = registryHist.name
    /\ registry = <<registryHist.before[1], registryHist.before[3]>>

\* C21: lock() always leaves unlocked false and notifies
\* onAudioLockedObservable; unlock() called while the audio context is
\* running leaves unlocked true and notifies onAudioUnlockedObservable
\* exactly when unlocked was false before the call, so that a repeated
\* unlock() of an unlocked running engine notifies nobody.
C21_LockAndUnlockNotify ==
    /\ audio.op = "lock" =>
          /\ ~audio.unlocked
          /\ audio.notified = "locked"
    /\ (audio.op = "unlock" /\ audio.stateAtCall = "running") =>
          /\ audio.unlocked
          /\ IF audio.unlockedBefore
             THEN audio.notified = "none"
             ELSE audio.notified = "unlocked"

\* unlock() was called a second time in a row on an unlocked engine whose
\* context is running, and sent no notification.
C21_Witness ==
    /\ audio.op = "unlock" /\ audio.before.op = "unlock"
    /\ audio.stateAtCall = "running" /\ audio.unlockedBefore
    /\ audio.unlocked /\ audio.notified = "none"

\* The fields of the AudioEngine, without the record of its last call.
AudioFields(a) ==
    [canUseWebAudio |-> a.canUseWebAudio,
     audioContextInitialized |-> a.audioContextInitialized,
     audioContext |-> a.audioContext, masterGain |-> a.masterGain,
     unlocked |-> a.unlocked, muteButton |-> a.muteButton,
     useCustomUnlockedButton |-> a.useCustomUnlockedButton,
     tryToRun |-> a.tryToRun, pending |-> a.pending]

\* Web Audio is available and the audio context has been initialized.
AudioReady(a) == a.canUseWebAudio /\ a.audioContextInitialized

\* C22: getGlobalVolume() returns -1 whenever Web Audio is unavailable or the
\* audio context has not been initialized, and the value of the master gain
\* otherwise; setGlobalVolume(v) changes no field of the engine in the first
\* case, and in the second case a getGlobalVolume() that follows it returns v.
C22_GlobalVolume ==
    /\ [](audio.op = "getGlobalVolume" =>
            /\ ~AudioReady(audio) => audio.returned = -1
            /\ AudioReady(audio) =>
                  /\ audio.masterGain.created
                  /\ audio.returned = audio.masterGain.value
                  /\ audio.before.op = "setGlobalVolume" =>
                        audio.returned = audio.before.arg)
    /\ [][(audio'.op = "setGlobalVolume" /\ ~AudioReady(audio)) =>
            AudioFields(audio') = AudioFields(audio)]_vars

\* On an initialized engine setGlobalVolume(2) was followed by a
\* getGlobalVolume() that returned 2.
C22_Witness ==
    /\ audio.op = "getGlobalVolume" /\ AudioReady(audio)
    /\ audio.before = [op |-> "setGlobalVolume", arg |-> 2]
    /\ audio.returned = 2

\* C23: a read of engine.getRenderWidth(useScreen) made while the override of
\* a capture is installed returns the width of the current render target
\* when useScreen is false and a render target is bound, and the resolved
\* width of that capture otherwise, never the width of the physical canvas;
\* engine.getRenderHeight(useScreen) does the same with the heights.
C23_OverrideReportsTargetOrCapture ==
    reading.pc = "read" =>
        LET target == reading.currentRenderTarget
            nested == ~reading.useScreen /\ target.bound
        IN /\ reading.width = IF nested THEN target.width
                              ELSE hist[reading.getRenderWidth].resolved.width
           /\ reading.height = IF nested THEN target.height
                               ELSE hist[reading.getRenderHeight].resolved.height
           /\ reading.width # engine.canvasWidth
           /\ reading.height # engine.canvasHeight

\* While the nested 1 by 7 target was bound, a read with useScreen false
\* returned 1 by 7 under the override of a 5 by 6 capture.
C23_Witness ==
    /\ reading.pc = "read" /\ ~reading.useScreen
    /\ reading.currentRenderTarget = NestedRenderTarget
    /\ hist[reading.getRenderWidth].resolved.width = 5
    /\ reading.width = 1 /\ reading.height = 7

\* The restoration step of the request has run: the finally block after its
\* render, or the error callback of its readiness wait.
Restored(r) == PastRender(r) \/ req[r].pc = "readyError"

\* No capture is between its call and its restoration.
NoneInFlight == \A r \in Requests : ~OverrideActive(req, r)

\* C24 as stated: when captures have overlapped on the engine and all of them
\* have completed, getRenderWidth and getRenderHeight are the accessors
\* installed before the first call and skipFrameRender is false.
C24_OverlapEndsWithOriginals ==
    (NoneInFlight /\ \E r \in Requests : hist[r].overlapped) =>
        EngineOverrideState(engine) = NoEngineState

\* This step is the restoration step of request r.
RestorationStep(r) == OverrideActive(req, r) /\ ~OverrideActive(req', r)

\* C24 amended: the restoration step of a capture, overlapped or not, leaves
\* skipFrameRender false and installs the accessors that were installed when
\* that capture was called, so that after two overlapping captures have
\* completed skipFrameRender is false and the accessors are those found by
\* the capture that restored last: the ones from before the first call when
\* the first capture restores last, the overrides of the first capture when
\* the second capture restores last.
C24_LastRestorationDecides ==
    /\ [][\A r \in Requests :
            RestorationStep(r) =>
                /\ ~engine'.skipFrameRender
                /\ engine'.getRenderWidth = hist[r].preCall.getRenderWidth
                /\ engine'.getRenderHeight = hist[r].preCall.getRenderHeight]_vars
    /\ [](NoneInFlight =>
            /\ ~engine.skipFrameRender
            /\ \/ engine.getRenderWidth = OriginalAccessor
               \/ \E r \in Requests :
                     /\ Restored(r) /\ hist[r].overlapped
                     /\ engine.getRenderWidth = hist[r].preCall.getRenderWidth
                     /\ engine.getRenderHeight = hist[r].preCall.getRenderHeight)

\* Two overlapping captures have completed, the second having restored last:
\* skipFrameRender is false and the accessors are the overrides of the first.
C24_Witness ==
    /\ NoneInFlight
    /\ Restored(1) /\ Restored(2) /\ hist[1].overlapped /\ hist[2].overlapped
    /\ hist[2].preCall.getRenderWidth = Override(1)
    /\ engine.getRenderWidth = Override(1) /\ engine.getRenderHeight = Override(1)
    /\ ~engine.skipFrameRender

\* C25 as stated: from the return of a valid call until the restoration step
\* of that capture, skipFrameRender is true in every state, also when another
\* capture on the engine has started or finished in between.
C25_SkipFrameRenderUntilOwnRestoration ==
    \A r \in Requests : OverrideActive(req, r) => engine.skipFrameRender

\* C25 amended: from the return of a valid call until the restoration step of
\* that capture, skipFrameRender is true in every state in which no capture
\* overlapping others has run its restoration step, also when other captures
\* have started in between; the restoration step of an overlapping capture
\* clears the flag although this capture is still pending.
C25_SkipFrameRenderUntilAnyRestoration ==
    \A r \in Requests :
        (OverrideActive(req, r)
           /\ \A q \in Requests \ {r} : Restored(q) => ~hist[q].overlapped)
        => engine.skipFrameRender

\* Two captures overlap, neither has restored yet, and skipFrameRender is
\* true.
C25_Witness ==
    /\ OverrideActive(req, 1) /\ OverrideActive(req, 2)
    /\ hist[1].overlapped /\ hist[2].overlapped
    /\ engine.skipFrameRender

\* This step is the success callback of the readiness wait of request r: the
\* swap, the render pass and the finally block.
RenderPassStep(r) == RetryWaiting(req[r]) /\ req'[r].pc = "awaitEndFrame"

\* The capture has run its render pass.
Rendered1(r) == hist[r].renderCount > 0

\* C26: the scene setup is recorded when readiness succeeds, not at the call:
\* the step that swaps, renders and restores leaves scene.activeCamera,
\* scene.activeCameras, scene.spritesEnabled and scene.meshes with the values
\* they had right before it, changes made since the call included, and a
\* capture that has rendered recorded as original setup what it put back.
C26_SnapshotAtReadiness ==
    /\ [][\A r \in Requests :
            RenderPassStep(r) =>
                /\ scene'.activeCamera = scene.activeCamera
                /\ scene'.activeCameras = scene.activeCameras
                /\ scene'.spritesEnabled = scene.spritesEnabled
                /\ scene'.meshes = scene.meshes]_vars
    /\ [](\A r \in Requests :
            Rendered1(r) =>
                /\ hist[r].postRender.activeCamera = hist[r].preSwap.activeCamera
                /\ hist[r].postRender.activeCameras = hist[r].preSwap.activeCameras
                /\ hist[r].postRender.spritesEnabled = hist[r].preSwap.spritesEnabled)

\* All four fields were changed between the call of a capture and its render
\* pass, and right after the render pass they have the changed values.
C26_Witness ==
    \E r \in Requests :
        /\ Rendered1(r)
        /\ hist[r].postRender.activeCamera = "camB"
        /\ hist[r].sceneAtCall.activeCamera = "camA"
        /\ hist[r].postRender.activeCameras = "cameras"
        /\ hist[r].sceneAtCall.activeCameras = "null"
        /\ ~hist[r].postRender.spritesEnabled
        /\ hist[r].sceneAtCall.spritesEnabled
        /\ hist[r].postRender.meshes = OtherMeshes
        /\ hist[r].sceneAtCall.meshes = SceneMeshes

\* C27: during the render pass of a capture scene.activeCamera is the
\* requested camera, scene.activeCameras is null, the camera's
\* outputRenderTarget is the offscreen surface of the capture and
\* scene.spritesEnabled is the renderSprites argument; between the success of
\* the readiness wait and scene.render() the render id went up by one and the
\* cached material was reset in that render generation.
C27_SetupDuringRenderPass ==
    \A r \in Requests :
        Rendered1(r) =>
            /\ hist[r].atRender.activeCamera = req[r].camera
            /\ hist[r].atRender.activeCameras = "null"
            /\ hist[r].atRender.outputRenderTarget = ScreenShot(r)
            /\ hist[r].atRender.spritesEnabled = req[r].renderSprites
            /\ hist[r].renderIdsBeforeRender = 1
            /\ hist[r].materialResetBeforeRender

\* A capture of camA with sprites rendered while the scene had camB, a
\* camera list and sprites disabled in place.
C27_Witness ==
    \E r \in Requests :
        /\ Rendered1(r)
        /\ req[r].camera = "camA" /\ req[r].renderSprites
        /\ hist[r].preSwap.activeCamera = "camB"
        /\ hist[r].preSwap.activeCameras = "cameras"
        /\ ~hist[r].preSwap.spritesEnabled
        /\ hist[r].atRender.activeCamera = "camA"
        /\ hist[r].atRender.activeCameras = "null"
        /\ hist[r].atRender.spritesEnabled
        /\ hist[r].renderIdsBeforeRender = 1
        /\ hist[r].materialResetBeforeRender

\* C28: a capture renders the meshes scene.meshes held when the capture was
\* called, whatever was added to or removed from the scene before the render
\* pass: during the pass scene.meshes is the copy made at the call, and after
\* it scene.meshes is the array the scene held just before the swap.
C28_RenderedMeshesAreCopyAtCall ==
    \A r \in Requests :
        Rendered1(r) =>
            /\ hist[r].atRender.meshes = RenderList(r)
            /\ hist[r].pixels.meshes = hist[r].sceneAtCall.meshContents
            /\ hist[r].postRender.meshes = hist[r].preSwap.meshes

\* A mesh was added and one removed, and scene.meshes was assigned another
\* array, between the call and the render pass: the capture drew the meshes of
\* the call and the scene holds the other array afterwards.
C28_Witness ==
    \E r \in Requests :
        /\ Rendered1(r)
        /\ hist[r].sceneAtCall.meshContents = {"mesh1", "mesh2"}
        /\ scene.meshContents = {"mesh2", "mesh3"}
        /\ hist[r].pixels.meshes = {"mesh1", "mesh2"}
        /\ hist[r].sceneAtCall.meshes = SceneMeshes
        /\ hist[r].preSwap.meshes = OtherMeshes
        /\ hist[r].postRender.meshes = OtherMeshes

\* The render size the accessors installed before the call of request r
\* report.
PreCaptureSize(r) ==
    LET e == [engine EXCEPT !.getRenderWidth = hist[r].preCall.getRenderWidth,
                            !.getRenderHeight = hist[r].preCall.getRenderHeight]
    IN <<GetRenderWidth(e, req), GetRenderHeight(e, req)>>

TwicePrecision(p) ==
    IF p.t = "half" THEN (IF p.v < 0 THEN -p.v ELSE p.v)
    ELSE IF p.t = "num" /\ p.v # 0 THEN 2 * (IF p.v < 0 THEN -p.v ELSE p.v)
    ELSE 2

\* C30: in a size object the precision multiplies the width and the height
\* that are given and nothing else: with p' = |precision|, or 1 when the
\* precision is absent or zero, a given width w resolves to floor(w * p') and
\* a given height h to floor(h * p'), while a given finalWidth and a given
\* finalHeight are returned as they are, whatever the precision.
C30_PrecisionScalesRawSizeOnly ==
    (SizeResolved /\ sizing.size.kind = "object") =>
        LET size == sizing.size
            p2 == TwicePrecision(size.precision)
        IN /\ Truthy(size.width) =>
                sizing.result.width = (size.width.v * p2) \div 2
           /\ Truthy(size.height) =>
                sizing.result.height = (size.height.v * p2) \div 2
           /\ Truthy(size.finalWidth) =>
                sizing.result.finalWidth = size.finalWidth.v
           /\ Truthy(size.finalHeight) =>
                sizing.result.finalHeight = size.finalHeight.v

\* {width: 3, height: 1, finalWidth: 1, finalHeight: MaxDim, precision: -1.5}
\* resolved to 4 by 1 with the final size 1 by MaxDim.
C30_Witness ==
    /\ SizeResolved
    /\ sizing.size = ObjectSize(Num(3), Num(1), Num(1), Num(MaxDim), Half(-3))
    /\ sizing.result = [height |-> 1, width |-> 4,
                        finalWidth |-> 1, finalHeight |-> MaxDim]

\* The canvas observer of request r has handed the canvas to the encoder.
CanvasHanded(r) == hist[r].path = "canvas" /\ hist[r].encoderCalls > 0

\* C31: CreateScreenshot calls of the active camera pending on the same
\* end-of-frame signal share the one module-level canvas, of which a single
\* element is ever created; when the observer of a call hands the canvas to
\* the encoder the canvas has the width and height that call resolved, which
\* it hands over once; successCallback is invoked at most once per call, and
\* with "" when forceDownload is set.
C31_SharedCanvasSizedPerCall ==
    /\ screenshotCanvas.elements <= 1
    /\ \A r \in Requests :
          /\ CanvasHanded(r) =>
                /\ hist[r].encoderCalls = 1
                /\ hist[r].encoderWidth = hist[r].resolved.width
                /\ hist[r].encoderHeight = hist[r].resolved.height
          /\ hist[r].path = "canvas" =>
                /\ hist[r].successCalls <= 1
                /\ (hist[r].successCalls = 1 /\ req[r].forceDownload) =>
                       hist[r].callbackData = "empty"

\* Two calls of different sizes were pending on the same end of frame: the
\* first handed the canvas over at 2 by 2, the second, with forceDownload, at
\* 4 by 2 and called back with "".
C31_Witness ==
    /\ CanvasHanded(1) /\ CanvasHanded(2)
    /\ hist[1].sharedFrame /\ hist[2].sharedFrame
    /\ hist[1].encoderWidth = 2 /\ hist[1].encoderHeight = 2
    /\ hist[2].encoderWidth = 4 /\ hist[2].encoderHeight = 2
    /\ req[2].forceDownload /\ hist[2].successCalls = 1
    /\ hist[2].callbackData = "empty"
    /\ screenshotCanvas.elements = 1

\* The entries of a registry under other names than name, in their iteration
\* order.
OthersInOrder(m, name) ==
    LET other(e) == e.name # name IN SelectSeq(m, other)

\* C32: after registerGLTFExtension(name, ...) the name is the last entry of
\* the registry's iteration order, whether it was registered before (its old
\* entry, wherever it stood, is gone) or not, and the other entries are the
\* ones from before the call in the same relative order.
C32_RegisterMovesNameLast ==
    registryHist.op = "register" =>
        LET name == registryHist.name
            before == registryHist.before
        IN /\ registry # <<>>
           /\ registry[Len(registry)].name = name
           /\ OthersInOrder(registry, name) = OthersInOrder(before, name)
           /\ Len(registry) = Len(OthersInOrder(before, name)) + 1
           /\ registry = Append(OthersInOrder(before, name),
                                registry[Len(registry)])

\* The first of three registered names was registered again: it is now the
\* last, behind the other two in their order.
C32_Witness ==
    /\ registryHist.op = "register" /\ registryHist.warned
    /\ Len(registryHist.before) = 3
    /\ registryHist.before[1].name = registryHist.name
    /\ Len(registry) = 3
    /\ registry[1] = registryHist.before[2]
    /\ registry[2] = registryHist.before[3]
    /\ registry[3].name = registryHist.name

\* The promises awaited by _triggerRunningStateAsync() that are pending.
Awaited(a) == a.pending.resume + a.pending.resolved

\* C33 as stated: at most one resume request issued by
\* _triggerRunningStateAsync is in flight at any time.
C33_OneResumeInFlight == audio.pending.resume <= 1

\* C33 amended: at most one resume request issued by
\* _triggerRunningStateAsync is in flight, and _tryToRun tells whether one
\* is, until the continuation of a suspend() of unlock() has cleared the flag
\* while it was set; from then on several can be in flight. A handler that
\* calls _triggerRunningStateAsync while _tryToRun is true (the touchend
\* listener, the initialization of a running context) issues no resume and
\* notifies nobody; _tryToRun is false after an awaited resume has settled,
\* resolved or rejected; unlock() called while _tryToRun is true and the
\* context is suspended asks the context to suspend and leaves the flag and
\* the resume requests alone, and only when that suspend resolves the flag is
\* cleared and a new resume issued, the earlier one being still in flight.
C33_OneResumeUntilSuspendClearsFlag ==
    /\ [](~audio.clearedInFlight =>
            /\ audio.pending.resume <= 1
            /\ (audio.tryToRun <=> (Awaited(audio) = 1)))
    /\ [][
       /\ (audio.tryToRun /\ audio'.op \in {"touchend", "audioContext"}) =>
             /\ audio'.pending = audio.pending
             /\ audio'.notified = "none"
             /\ audio'.unlocked = audio.unlocked
       /\ audio'.op = "resumeSettled" => ~audio'.tryToRun
       /\ (audio'.op = "unlock" /\ audio.tryToRun
             /\ audio.audioContext = "suspended") =>
             /\ audio'.pending.suspend = audio.pending.suspend + 1
             /\ Awaited(audio') = Awaited(audio)
             /\ audio'.tryToRun /\ audio'.notified = "none"
       /\ (audio'.op = "suspendSettled"
             /\ audio'.pending.suspend < audio.pending.suspend) =>
             \/ /\ Awaited(audio') = Awaited(audio)
                /\ audio'.tryToRun = audio.tryToRun
             \/ /\ Awaited(audio') = Awaited(audio) + 1
                /\ audio'.tryToRun
                /\ audio'.audioContext # "running"]_vars

\* The suspend() of unlock() has resolved while a resume was in flight: a
\* second resume is in flight and _tryToRun is true.
C33_Witness ==
    /\ audio.op = "suspendSettled" /\ audio.clearedInFlight
    /\ audio.pending.resume = 2 /\ audio.pending.suspend = 0
    /\ audio.tryToRun /\ audio.audioContext = "suspended"

====
